---- MODULE Spec2Model ----
(***************************************************************************)
(* Model of the HLS ingest / dynamic topology engine of                    *)
(* video-graphic-overlay-gstreamer:                                        *)
(*   - the pad-added linkers of internal/pipeline/pipeline.go,             *)
(*   - the Pipeline Start / Stop / IsRunning life cycle,                   *)
(*   - the ErrorHandler retry policy of internal/pipeline/errors.go,       *)
(*   - the handleMessages loop and RecoveryManager.attemptRestart,         *)
(*   - the variant selection of internal/pipeline/hls_parser.go.           *)
(* The specifications share the variables:                                 *)
(*   SpecLinker    the port-creation callbacks,                            *)
(*   Spec          Start / Stop / IsRunning called from several goroutines,*)
(*   SpecRecovery  ErrorHandler.HandleError / Reset,                       *)
(*   SpecEvents    Start / Stop by the top-level caller, the handleMessages*)
(*                 loops they spawn and the caller's context,              *)
(*   SpecEventsFair  one run of main() under fair scheduling,              *)
(*   SpecRestart   faults, the attemptRestart tasks they spawn and the     *)
(*                 loops these start,                                      *)
(*   SpecSelect    SelectBestStream on a parsed master playlist,           *)
(*   SpecLookup    GetStreamByResolution on a parsed master playlist,      *)
(*   SpecParse     ParseHLSMasterPlaylist on the lines of a manifest,      *)
(*   SpecBuild     New for every source type and overlay setting,          *)
(*   SpecResolve   New of the playbin3 pipeline with manifest resolution,  *)
(*   SpecShutdown  SpecRestart with the Stop main() calls on its way out,  *)
(*   SpecObserved  SpecEvents with IsRunning,                              *)
(*   SpecSourcePads, SpecSourcePadsFair  the source node's pad-added       *)
(*                 callbacks, split at the IsLinked check,                 *)
(*   SpecCaps      how each pad-added callback obtains the pad's caps,     *)
(*   SpecSelectLookup  SelectBestStream and GetStreamByResolution mixed,   *)
(*   SpecHealth, SpecHealthFair  the HealthChecker's monitor loop over a   *)
(*                 Pipeline its caller starts and stops.                   *)
(***************************************************************************)
EXTENDS Integers, Sequences, FiniteSets, TLC

VARIABLES
    \* ---- processing graph (pipeline.go) ----
    sourceType,     \* cfg.Input.SourceType
    links,          \* set of <<port, intake>>: pad links established so far
    lastEvt,        \* what the last pad-added callback did (observation)
    aborted,        \* the process was aborted by a fatal runtime assertion
    \* ---- Pipeline supervisor (pipeline.go) ----
    running,        \* Pipeline.running
    writers,        \* goroutines holding Pipeline.mutex in write mode
    readers,        \* goroutines holding Pipeline.mutex in read mode
    pc,             \* position of each calling goroutine
    ret,            \* value returned by the goroutine's last Start/Stop/IsRunning
    gstState,       \* state last requested from the runtime: "NULL" / "PLAYING"
    playRequests,   \* number of SetState(StatePlaying) requests
    nullRequests,   \* number of SetState(StateNull) requests
    quitCalls,      \* number of loop.Quit() calls
    msgLoops,       \* number of handleMessages goroutines spawned
    loopRuns,       \* number of loop.Run() goroutines spawned
    calls,          \* number of Start/Stop/IsRunning calls begun
    entry,          \* per goroutine: the graph as it was when it took the lock
    \* ---- ErrorHandler / RecoveryManager / HealthChecker (errors.go) ----
    maxRetries,     \* ErrorHandler.maxRetries
    retryCount,     \* ErrorHandler.retryCount
    lastError,      \* ErrorHandler.lastError (its Type), or None
    callbackSet,    \* ErrorHandler.errorCallback was set by RecoveryManager.Start
    autoRestart,    \* RecoveryManager.autoRestart
    history,        \* HandleError calls since construction / the last Reset
    restartSpawned, \* the last HandleError call spawned attemptRestart
    lastActivity,   \* HealthChecker.lastActivity
    isHealthy,      \* HealthChecker.isHealthy
    \* ---- goroutines spawned by Start and by the RecoveryManager ----
    loops,          \* the handleMessages goroutines, in the order they were spawned
    ctxCancelled,   \* the context the top-level caller passed to Start is done
    lastPop,        \* the last message a handleMessages loop handled (observation)
    restart,        \* per goroutine: its position in attemptRestart, if it runs one
    \* ---- HLSMasterPlaylist (hls_parser.go) ----
    streams,        \* HLSMasterPlaylist.Streams
    selected,       \* what the last SelectBestStream returned
    criteria,       \* the criteria it was called with
    query,          \* the last GetStreamByResolution arguments, or None
    lookup,         \* what the last GetStreamByResolution returned
    manifest,       \* the lines of the fetched master playlist, or the fetch failure
    parsed,         \* what ParseHLSMasterPlaylist returned for it
    \* ---- graph construction (pipeline.New) ----
    config,         \* the configuration New was called with
    built,          \* what New returned and what it created on the way
    \* ---- pads of the source node, their callbacks step by step ----
    pads,           \* per pad: its descriptor and the progress of its pad-added callback
    probe,          \* how the last callback obtained its descriptor (observation)
    \* ---- HealthChecker.monitor (errors.go) ----
    now,            \* the wall clock, in ticker periods since NewHealthChecker
    health          \* what the last pass of the monitor loop did (observation)

graphVars == <<sourceType, links, lastEvt, aborted>>
supervisorVars == <<running, writers, readers, pc, ret, gstState, playRequests,
                    nullRequests, quitCalls, msgLoops, loopRuns, calls, entry>>
recoveryVars == <<maxRetries, retryCount, lastError, callbackSet, autoRestart,
                  history, restartSpawned, lastActivity, isHealthy>>
workerVars == <<loops, ctxCancelled, lastPop, restart>>
hlsVars == <<streams, selected, criteria>>
parserVars == <<query, lookup, manifest, parsed>>
builderVars == <<config, built>>
padVars == <<pads, probe>>
healthVars == <<now, health>>
otherVars == <<parserVars, builderVars, padVars, healthVars>>
vars == <<graphVars, supervisorVars, recoveryVars, workerVars, hlsVars, otherVars>>

None == "none"

(***************************************************************************)
(* Media-type names are character sequences, so that strings.HasPrefix is  *)
(* a real prefix test.                                                      *)
(***************************************************************************)
VideoSlash == <<"v","i","d","e","o","/">>
AudioSlash == <<"a","u","d","i","o","/">>
VideoMpegts == VideoSlash \o <<"m","p","e","g","t","s">>
VideoMp2t == VideoSlash \o <<"m","p","2","t">>
VideoMpeg == VideoSlash \o <<"m","p","e","g">>
VideoXRaw == VideoSlash \o <<"x","-","r","a","w">>
AudioMpeg == AudioSlash \o <<"m","p","e","g">>
ApplicationXHls == <<"a","p","p","l","i","c","a","t","i","o","n","/","x","-","h","l","s">>

MediaTypes == {VideoMpegts, VideoMp2t, VideoMpeg, VideoXRaw, AudioMpeg, ApplicationXHls}

HasPrefix(s, prefix) ==
    /\ Len(prefix) <= Len(s)
    /\ SubSeq(s, 1, Len(prefix)) = prefix

(***************************************************************************)
(* Capability descriptors (gst.Caps): nil, or a list of structures, each   *)
(* given by its media-type name.                                           *)
(***************************************************************************)
\* In the audio decoder's linker, whether entry 0 exists is decided by the
\* runtime's GetStructureAt(0), not by a check of the code: see IndexedEmpty.
NilCaps == [isNil |-> TRUE, structs |-> <<>>]

Caps(structs) == [isNil |-> FALSE, structs |-> structs]

Descriptors ==
    {Caps(<<>>)} \cup {Caps(<<n>>) : n \in MediaTypes}
                \cup {Caps(<<VideoXRaw, AudioMpeg>>)}

DescriptorsOrNil == Descriptors \cup {NilCaps}

GetSize(caps) == Len(caps.structs)

\* Bound on the pads one node creates.
MaxPads == 1

SourceTypes == {"souphttpsrc", "urisourcebin", "playbin3"}

Callbacks == {"demux", "tsdemux", "playbin3", "urisourcebin", "videoDecode", "audioDecode"}

Intakes == {"tsdemux", "videoQueue", "audioQueue", "videoConv", "audioConv"}

PortsOf(node) == {node} \X (1..MaxPads)

\* linkElements: which source linkers are registered for a source type;
\* linkCommonElements registers the two decoder linkers for all of them.
linkElements(st) ==
    CASE st = "playbin3" -> {"playbin3", "videoDecode", "audioDecode"}
      [] st = "urisourcebin" -> {"urisourcebin", "videoDecode", "audioDecode"}
      [] OTHER -> {"demux", "tsdemux", "videoDecode", "audioDecode"}

IsLinked(intake) == \E l \in links : l[2] = intake

PortIsLinked(port) == \E l \in links : l[1] = port

\* pad.Link(sinkPad) in the runtime: refused when either end is linked
\* already or when the runtime cannot connect the two (accept = FALSE).
PadLink(port, intake, accept) ==
    accept /\ ~IsLinked(intake) /\ ~PortIsLinked(port)

\* The record a callback leaves behind: which callback ran on which port,
\* the size of the descriptor it ended up with (-1: nil), whether it called
\* GetStructureAt(0), the media type it obtained, the intake it chose and
\* the branch it took.
Evt(cb, port, caps, read0, typed, mediaType, target, log) ==
    [cb |-> cb, port |-> port,
     capsLen |-> IF caps.isNil THEN -1 ELSE GetSize(caps),
     read0 |-> read0, typed |-> typed, mediaType |-> mediaType,
     target |-> target, log |-> log]

NoEvt ==
    [cb |-> None, port |-> <<None, 0>>, capsLen |-> -1, read0 |-> FALSE,
     typed |-> FALSE, mediaType |-> <<>>, target |-> None, log |-> None]

\* What a pad-added callback never touches.
LinkerFrame == UNCHANGED <<sourceType, supervisorVars, recoveryVars, workerVars, hlsVars, otherVars>>

\* Faulty variant of SinkPadFree: the IsLinked check is missing.
SinkPadFree_Unchecked(intake) == TRUE

\* `sinkPad != nil && !sinkPad.IsLinked()`: the static sink pad of a queue
\* or converter always exists.
SinkPadFree(intake) == ~IsLinked(intake)

\* The success branch of `pad.Link(sinkPad)`: the link exists, Infof.
LinkSucceeded(cb, port, caps, target) ==
    /\ links' = links \cup {<<port, target>>}
    /\ lastEvt' = Evt(cb, port, caps, TRUE, TRUE, caps.structs[1], target, "linked")
    /\ aborted' = aborted
    /\ LinkerFrame

\* Faulty variant of LinkFailed: a rejected link tears the graph down.
LinkFailed_TearsDown(cb, port, caps, target) ==
    /\ links' = links
    /\ lastEvt' = Evt(cb, port, caps, TRUE, TRUE, caps.structs[1], target, "link_failed")
    /\ aborted' = aborted
    /\ running' = FALSE
    /\ gstState' = "NULL"
    /\ UNCHANGED <<sourceType, writers, readers, pc, ret, playRequests, nullRequests,
                   quitCalls, msgLoops, loopRuns, calls, entry, recoveryVars,
                   workerVars, hlsVars, otherVars>>

\* The failure branch of `pad.Link(sinkPad)`: Errorf, nothing else.
LinkFailed(cb, port, caps, target) ==
    /\ links' = links
    /\ lastEvt' = Evt(cb, port, caps, TRUE, TRUE, caps.structs[1], target, "link_failed")
    /\ aborted' = aborted
    /\ LinkerFrame

\* The else branch of the sink-pad check: Warnf, nothing else.
AlreadyLinked(cb, port, caps, target) ==
    /\ links' = links
    /\ lastEvt' = Evt(cb, port, caps, TRUE, TRUE, caps.structs[1], target, "already_linked")
    /\ aborted' = aborted
    /\ LinkerFrame

\* No prefix matched: the callback falls through without logging.
Dropped(cb, port, caps) ==
    /\ links' = links
    /\ lastEvt' = Evt(cb, port, caps, TRUE, TRUE, caps.structs[1], None, "dropped")
    /\ aborted' = aborted
    /\ LinkerFrame

\* The else branch of the descriptor check: Warnf "Could not get capabilities".
NoCaps(cb, port, caps) ==
    /\ links' = links
    /\ lastEvt' = Evt(cb, port, caps, FALSE, FALSE, <<>>, None, "no_caps")
    /\ aborted' = aborted
    /\ LinkerFrame

\* GetStructureAt(0) on a descriptor without entries: the runtime's
\* assertion `index < GST_CAPS_LEN (caps)` fails.  Depending on how the
\* runtime treats failed assertions the call returns no structure (the
\* callback then does nothing) or the process is aborted.
IndexedEmpty(cb, port, caps) ==
    /\ links' = links
    /\ lastEvt' = Evt(cb, port, caps, TRUE, FALSE, <<>>, None, "no_structure")
    /\ aborted' \in {FALSE, TRUE}
    /\ LinkerFrame

\* The part all linkers share once the media type chose an intake (or none).
LinkPad(cb, port, caps, target) ==
    IF target = None
    THEN Dropped(cb, port, caps)
    ELSE IF SinkPadFree(target)
         THEN \E accept \in BOOLEAN :
                 IF PadLink(port, target, accept)
                 THEN LinkSucceeded(cb, port, caps, target)
                 ELSE LinkFailed(cb, port, caps, target)
         ELSE AlreadyLinked(cb, port, caps, target)

(***************************************************************************)
(* Dispatch by name prefix, one operator per linker.                       *)
(***************************************************************************)
\* Faulty variant of DemuxTarget: the transport-stream test is missing.
DemuxTarget_NoTransportStream(mediaType) ==
    IF HasPrefix(mediaType, VideoSlash) THEN "videoQueue"
    ELSE IF HasPrefix(mediaType, AudioSlash) THEN "audioQueue"
    ELSE None

\* hlsdemux pad-added (Manual strategy, primary demultiplexer).
DemuxTarget(mediaType) ==
    IF HasPrefix(mediaType, VideoMpegts) \/ HasPrefix(mediaType, VideoMp2t)
    THEN "tsdemux"
    ELSE IF HasPrefix(mediaType, VideoSlash) THEN "videoQueue"
    ELSE IF HasPrefix(mediaType, AudioSlash) THEN "audioQueue"
    ELSE None

\* tsdemux pad-added (Manual strategy, secondary demultiplexer).
TsdemuxTarget(mediaType) ==
    IF HasPrefix(mediaType, VideoSlash) THEN "videoQueue"
    ELSE IF HasPrefix(mediaType, AudioSlash) THEN "audioQueue"
    ELSE None

\* playbin3 pad-added (Fully-automatic strategy).
Playbin3Target(mediaType) ==
    IF HasPrefix(mediaType, VideoSlash) THEN "videoQueue"
    ELSE IF HasPrefix(mediaType, AudioSlash) THEN "audioQueue"
    ELSE None

\* urisourcebin pad-added (Semi-automatic strategy).
UrisourcebinTarget(mediaType) ==
    IF HasPrefix(mediaType, VideoSlash) THEN "videoQueue"
    ELSE IF HasPrefix(mediaType, AudioSlash) THEN "audioQueue"
    ELSE None

\* video decodebin pad-added.
VideoDecodeTarget(mediaType) ==
    IF HasPrefix(mediaType, VideoSlash) THEN "videoConv" ELSE None

\* audio decodebin pad-added.
AudioDecodeTarget(mediaType) ==
    IF HasPrefix(mediaType, AudioSlash) THEN "audioConv" ELSE None

\* `caps := pad.GetCurrentCaps(); if caps == nil { caps = pad.QueryCaps(nil) }`:
\* the descriptors the callback can end up with, given the negotiated one.
CurrentOrQueried(current) ==
    IF current.isNil THEN DescriptorsOrNil ELSE {current}

\* Every descriptor the source linkers can end up with, over all the
\* negotiated descriptors a new pad can carry.
ResolvedCaps == UNION {CurrentOrQueried(current) : current \in DescriptorsOrNil}

\* `caps != nil && caps.GetSize() > 0`
CapsUsable(caps) == ~caps.isNil /\ GetSize(caps) > 0

\* `caps != nil` (the audio decoder's check)
CapsNotNil(caps) == ~caps.isNil

(***************************************************************************)
(* The pad-added callbacks.  Each is one atomic step: the runtime          *)
(* serialises the link operations of a node.                               *)
(***************************************************************************)
DemuxPadAdded ==
    /\ ~aborted
    /\ "demux" \in linkElements(sourceType)
    /\ \E port \in PortsOf("demux"), caps \in ResolvedCaps :
            IF CapsUsable(caps)
            THEN LinkPad("demux", port, caps, DemuxTarget(caps.structs[1]))
            ELSE NoCaps("demux", port, caps)

TsdemuxPadAdded ==
    /\ ~aborted
    /\ "tsdemux" \in linkElements(sourceType)
    /\ \E port \in PortsOf("tsdemux"), caps \in ResolvedCaps :
            IF CapsUsable(caps)
            THEN LinkPad("tsdemux", port, caps, TsdemuxTarget(caps.structs[1]))
            ELSE NoCaps("tsdemux", port, caps)

Playbin3PadAdded ==
    /\ ~aborted
    /\ "playbin3" \in linkElements(sourceType)
    /\ \E port \in PortsOf("playbin3"), caps \in ResolvedCaps :
            IF CapsUsable(caps)
            THEN LinkPad("playbin3", port, caps, Playbin3Target(caps.structs[1]))
            ELSE NoCaps("playbin3", port, caps)

UrisourcebinPadAdded ==
    /\ ~aborted
    /\ "urisourcebin" \in linkElements(sourceType)
    /\ \E port \in PortsOf("urisourcebin"), caps \in ResolvedCaps :
            IF CapsUsable(caps)
            THEN LinkPad("urisourcebin", port, caps, UrisourcebinTarget(caps.structs[1]))
            ELSE NoCaps("urisourcebin", port, caps)

\* The decoder linkers use pad.GetCurrentCaps() alone.
VideoDecodePadAdded ==
    /\ ~aborted
    /\ "videoDecode" \in linkElements(sourceType)
    /\ \E port \in PortsOf("videoDecode"), caps \in DescriptorsOrNil :
         IF CapsUsable(caps)
         THEN LinkPad("videoDecode", port, caps, VideoDecodeTarget(caps.structs[1]))
         ELSE NoCaps("videoDecode", port, caps)

AudioDecodePadAdded ==
    /\ ~aborted
    /\ "audioDecode" \in linkElements(sourceType)
    /\ \E port \in PortsOf("audioDecode"), caps \in DescriptorsOrNil :
         IF CapsNotNil(caps)
         THEN IF GetSize(caps) > 0
              THEN LinkPad("audioDecode", port, caps, AudioDecodeTarget(caps.structs[1]))
              ELSE IndexedEmpty("audioDecode", port, caps)
         ELSE NoCaps("audioDecode", port, caps)

(***************************************************************************)
(* Pipeline.Start / Stop / IsRunning, called from several goroutines.      *)
(* Every statement between Lock and Unlock is a step of its own.           *)
(***************************************************************************)
\* Bound on the goroutines calling into the Pipeline.
NumCallers == 3

\* Bound on the calls they make altogether.
MaxCalls == 5

Goroutines == 1..NumCallers

\* The positions between mutex.Lock() and the deferred mutex.Unlock().
StartBody == {"start_check", "start_setstate", "start_setrunning",
              "start_spawn_msgs", "start_spawn_loop", "start_unlock"}

StopBody == {"stop_check", "stop_setstate", "stop_quit", "stop_setrunning", "stop_unlock"}

\* The graph as a caller can see it.
Graph ==
    [running |-> running, gstState |-> gstState, playRequests |-> playRequests,
     nullRequests |-> nullRequests, quitCalls |-> quitCalls,
     msgLoops |-> msgLoops, loopRuns |-> loopRuns]

NoEntry == [running |-> FALSE, gstState |-> None, playRequests |-> 0,
            nullRequests |-> 0, quitCalls |-> 0, msgLoops |-> 0, loopRuns |-> 0]

\* What Start / Stop / IsRunning never touch, the list of handleMessages
\* goroutines apart.
SpawnFrame == UNCHANGED <<graphVars, recoveryVars, ctxCancelled, lastPop, restart, hlsVars, otherVars>>

SupervisorFrame == SpawnFrame /\ UNCHANGED loops

\* sync.RWMutex: Lock waits until nobody holds the mutex in either mode.
MutexFree == writers = {} /\ readers = {}

\* A goroutine calls Start / Stop / IsRunning.
Call(t, first) ==
    /\ pc[t] = "idle"
    /\ calls < MaxCalls
    /\ calls' = calls + 1
    /\ pc' = [pc EXCEPT ![t] = first]
    /\ ret' = [ret EXCEPT ![t] = None]
    /\ UNCHANGED <<running, writers, readers, gstState, playRequests, nullRequests,
                   quitCalls, msgLoops, loopRuns, entry>>
    /\ SupervisorFrame

CallStart(t) == Call(t, "start_lock")

CallStop(t) == Call(t, "stop_lock")

CallIsRunning(t) == Call(t, "isrunning_rlock")

\* Faulty variant of Lock: the caller does not wait for the mutex.
Lock_NoWait(t, at, next) ==
    /\ pc[t] = at
    /\ writers' = writers \cup {t}
    /\ entry' = [entry EXCEPT ![t] = Graph]
    /\ pc' = [pc EXCEPT ![t] = next]
    /\ UNCHANGED <<running, readers, ret, gstState, playRequests, nullRequests,
                   quitCalls, msgLoops, loopRuns, calls>>
    /\ SupervisorFrame

\* p.mutex.Lock()
Lock(t, at, next) ==
    /\ pc[t] = at
    /\ MutexFree
    /\ writers' = writers \cup {t}
    /\ entry' = [entry EXCEPT ![t] = Graph]
    /\ pc' = [pc EXCEPT ![t] = next]
    /\ UNCHANGED <<running, readers, ret, gstState, playRequests, nullRequests,
                   quitCalls, msgLoops, loopRuns, calls>>
    /\ SupervisorFrame

\* defer p.mutex.Unlock()
Unlock(t, at) ==
    /\ pc[t] = at
    /\ writers' = writers \ {t}
    /\ entry' = [entry EXCEPT ![t] = NoEntry]
    /\ pc' = [pc EXCEPT ![t] = "idle"]
    /\ UNCHANGED <<running, readers, ret, gstState, playRequests, nullRequests,
                   quitCalls, msgLoops, loopRuns, calls>>
    /\ SupervisorFrame

StartLock(t) == Lock(t, "start_lock", "start_check")

\* Faulty variant of StartCheck: the running flag is not tested.
StartCheck_Unchecked(t) ==
    /\ pc[t] = "start_check"
    /\ pc' = [pc EXCEPT ![t] = "start_setstate"]
    /\ UNCHANGED <<running, writers, readers, ret, gstState, playRequests, nullRequests,
                   quitCalls, msgLoops, loopRuns, calls, entry>>
    /\ SupervisorFrame

\* if p.running { return fmt.Errorf("pipeline is already running") }
StartCheck(t) ==
    /\ pc[t] = "start_check"
    /\ IF running
       THEN /\ pc' = [pc EXCEPT ![t] = "start_unlock"]
            /\ ret' = [ret EXCEPT ![t] = "already_running"]
       ELSE /\ pc' = [pc EXCEPT ![t] = "start_setstate"]
            /\ ret' = ret
    /\ UNCHANGED <<running, writers, readers, gstState, playRequests, nullRequests,
                   quitCalls, msgLoops, loopRuns, calls, entry>>
    /\ SupervisorFrame

\* p.pipeline.SetState(gst.StatePlaying)
StartSetState(t) ==
    /\ pc[t] = "start_setstate"
    /\ gstState' = "PLAYING"
    /\ playRequests' = playRequests + 1
    /\ pc' = [pc EXCEPT ![t] = "start_setrunning"]
    /\ UNCHANGED <<running, writers, readers, ret, nullRequests, quitCalls,
                   msgLoops, loopRuns, calls, entry>>
    /\ SupervisorFrame

\* p.running = true
StartSetRunning(t) ==
    /\ pc[t] = "start_setrunning"
    /\ running' = TRUE
    /\ pc' = [pc EXCEPT ![t] = "start_spawn_msgs"]
    /\ UNCHANGED <<writers, readers, ret, gstState, playRequests, nullRequests,
                   quitCalls, msgLoops, loopRuns, calls, entry>>
    /\ SupervisorFrame

\* The ctx argument of the Start() goroutine t is in: attemptRestart calls
\* rm.pipeline.Start(nil), every other caller passes its own context.
CtxArg(t) == IF restart[t].pc = "none" THEN "caller" ELSE "nil"

\* A handleMessages goroutine that has not run yet: the context it was
\* given, the goroutine whose Start() spawned it, its position, why it
\* returned and the polls it made after its context was cancelled.
NewLoop(ctx, t) ==
    [ctx |-> ctx, by |-> t, pc |-> "select", exit |-> None, pollsAfterCancel |-> 0]

\* go p.handleMessages(ctx)
StartSpawnMessages(t) ==
    /\ pc[t] = "start_spawn_msgs"
    /\ msgLoops' = msgLoops + 1
    /\ loops' = Append(loops, NewLoop(CtxArg(t), t))
    /\ pc' = [pc EXCEPT ![t] = "start_spawn_loop"]
    /\ UNCHANGED <<running, writers, readers, ret, gstState, playRequests,
                   nullRequests, quitCalls, loopRuns, calls, entry>>
    /\ SpawnFrame

\* go func() { p.loop.Run() }(); return nil
StartSpawnLoop(t) ==
    /\ pc[t] = "start_spawn_loop"
    /\ loopRuns' = loopRuns + 1
    /\ ret' = [ret EXCEPT ![t] = "ok"]
    /\ pc' = [pc EXCEPT ![t] = "start_unlock"]
    /\ UNCHANGED <<running, writers, readers, gstState, playRequests,
                   nullRequests, quitCalls, msgLoops, calls, entry>>
    /\ SupervisorFrame

StartUnlock(t) == Unlock(t, "start_unlock")

StopLock(t) == Lock(t, "stop_lock", "stop_check")

\* Faulty variant of StopCheck: the running flag is not tested.
StopCheck_Unchecked(t) ==
    /\ pc[t] = "stop_check"
    /\ pc' = [pc EXCEPT ![t] = "stop_setstate"]
    /\ UNCHANGED <<running, writers, readers, ret, gstState, playRequests, nullRequests,
                   quitCalls, msgLoops, loopRuns, calls, entry>>
    /\ SupervisorFrame

\* if !p.running { return nil }
StopCheck(t) ==
    /\ pc[t] = "stop_check"
    /\ IF ~running
       THEN /\ pc' = [pc EXCEPT ![t] = "stop_unlock"]
            /\ ret' = [ret EXCEPT ![t] = "nil"]
       ELSE /\ pc' = [pc EXCEPT ![t] = "stop_setstate"]
            /\ ret' = ret
    /\ UNCHANGED <<running, writers, readers, gstState, playRequests, nullRequests,
                   quitCalls, msgLoops, loopRuns, calls, entry>>
    /\ SupervisorFrame

\* p.pipeline.SetState(gst.StateNull)
StopSetState(t) ==
    /\ pc[t] = "stop_setstate"
    /\ gstState' = "NULL"
    /\ nullRequests' = nullRequests + 1
    /\ pc' = [pc EXCEPT ![t] = "stop_quit"]
    /\ UNCHANGED <<running, writers, readers, ret, playRequests, quitCalls,
                   msgLoops, loopRuns, calls, entry>>
    /\ SupervisorFrame

\* p.loop.Quit()
StopQuit(t) ==
    /\ pc[t] = "stop_quit"
    /\ quitCalls' = quitCalls + 1
    /\ pc' = [pc EXCEPT ![t] = "stop_setrunning"]
    /\ UNCHANGED <<running, writers, readers, ret, gstState, playRequests,
                   nullRequests, msgLoops, loopRuns, calls, entry>>
    /\ SupervisorFrame

\* p.running = false; return nil
StopSetRunning(t) ==
    /\ pc[t] = "stop_setrunning"
    /\ running' = FALSE
    /\ ret' = [ret EXCEPT ![t] = "nil"]
    /\ pc' = [pc EXCEPT ![t] = "stop_unlock"]
    /\ UNCHANGED <<writers, readers, gstState, playRequests, nullRequests,
                   quitCalls, msgLoops, loopRuns, calls, entry>>
    /\ SupervisorFrame

StopUnlock(t) == Unlock(t, "stop_unlock")

\* p.mutex.RLock(): waits while a writer holds the mutex.
IsRunningRLock(t) ==
    /\ pc[t] = "isrunning_rlock"
    /\ writers = {}
    /\ readers' = readers \cup {t}
    /\ entry' = [entry EXCEPT ![t] = Graph]
    /\ pc' = [pc EXCEPT ![t] = "isrunning_read"]
    /\ UNCHANGED <<running, writers, ret, gstState, playRequests, nullRequests,
                   quitCalls, msgLoops, loopRuns, calls>>
    /\ SupervisorFrame

\* return p.running, then the deferred p.mutex.RUnlock()
IsRunningRead(t) ==
    /\ pc[t] = "isrunning_read"
    /\ ret' = [ret EXCEPT ![t] = IF running THEN "true" ELSE "false"]
    /\ readers' = readers \ {t}
    /\ entry' = [entry EXCEPT ![t] = NoEntry]
    /\ pc' = [pc EXCEPT ![t] = "idle"]
    /\ UNCHANGED <<running, writers, gstState, playRequests, nullRequests,
                   quitCalls, msgLoops, loopRuns, calls>>
    /\ SupervisorFrame

(***************************************************************************)
(* ErrorHandler (errors.go).  HandleError is one step: it runs on the      *)
(* goroutine that reports the fault.                                       *)
(***************************************************************************)
ErrorTypes == {"UNKNOWN", "INPUT", "DECODING", "ENCODING", "OUTPUT",
               "NETWORK", "RESOURCE", "CONFIGURATION"}

\* NewErrorHandler(3, 5*time.Second) in NewRecoveryManager.
DefaultMaxRetries == 3

\* Bound on the configured maxRetries.
MaxRetriesBound == 3

\* Bound on the faults handled between two resets.
MaxFaults == 4

\* make(map[ErrorType]int): every category reads as 0.
ZeroCounts == [e \in ErrorTypes |-> 0]

\* Faulty variant of shouldRetry: configuration faults are retried too.
shouldRetry_Configuration(errorType) ==
    errorType \in {"NETWORK", "INPUT", "RESOURCE", "CONFIGURATION"}

shouldRetry(errorType) ==
    CASE errorType \in {"NETWORK", "INPUT"} -> TRUE
      [] errorType = "RESOURCE" -> TRUE
      [] errorType = "CONFIGURATION" -> FALSE
      [] OTHER -> FALSE

\* Faulty variant of ExceededMaxRetries: off by one.
ExceededMaxRetries_OffByOne(count) == count >= maxRetries

\* eh.retryCount[err.Type] > eh.maxRetries, on the incremented counter
ExceededMaxRetries(count) == count > maxRetries

\* The error callback RecoveryManager.Start registers: whether it spawns
\* attemptRestart.
ErrorCallbackSpawns(errorType) ==
    callbackSet /\ autoRestart /\ shouldRetry(errorType)

\* The value HandleError returns and the counters it leaves.
HandleErrorResult(errorType) ==
    IF ~shouldRetry(errorType)
    THEN [approved |-> FALSE, counts |-> retryCount]
    ELSE LET counts == [retryCount EXCEPT ![errorType] = @ + 1]
         IN  [approved |-> ~ExceededMaxRetries(counts[errorType]), counts |-> counts]

RecoveryFrame == UNCHANGED <<graphVars, supervisorVars, workerVars, hlsVars, otherVars>>

HandleError(errorType) ==
    /\ Len(history) < MaxFaults
    /\ lastError' = errorType
    /\ restartSpawned' = ErrorCallbackSpawns(errorType)
    /\ LET r == HandleErrorResult(errorType)
       IN  /\ retryCount' = r.counts
           /\ history' = Append(history, [type |-> errorType, approved |-> r.approved])
    /\ UNCHANGED <<maxRetries, callbackSet, autoRestart, lastActivity, isHealthy>>
    /\ RecoveryFrame

\* ErrorHandler.Reset
Reset ==
    /\ retryCount' = ZeroCounts
    /\ lastError' = None
    /\ history' = <<>>
    /\ UNCHANGED <<maxRetries, callbackSet, autoRestart, restartSpawned,
                   lastActivity, isHealthy>>
    /\ RecoveryFrame

GetRetryCount(errorType) == retryCount[errorType]

(***************************************************************************)
(* Pipeline.handleMessages: one goroutine per successful Start().  The     *)
(* select statement and the TimedPop that follows it are separate steps,   *)
(* so the context can be cancelled between them.                           *)
(***************************************************************************)
\* Bound on the handleMessages goroutines the top-level caller spawns.
MaxLoops == 2

\* The goroutine of main() that calls Start(ctx) and Stop().
Caller == CHOOSE t \in Goroutines : \A u \in Goroutines : t <= u

\* The message types the bus delivers; OTHER stands for every type the
\* switch has no case for.
Messages == {"EOS", "ERROR", "WARNING", "INFO", "STATE_CHANGED", "OTHER"}

\* The result of the last TimedPop: the loop that polled, the message it
\* got (None: the poll timed out) and whether msg.Unref() was reached.
NoPop == [loop |-> 0, msg |-> None, unref |-> FALSE]

\* Faulty variant of Terminates: the loop goes on after an error message.
Terminates_ErrorContinues(msg) == msg = "EOS"

\* The cases of the switch that return from handleMessages.
Terminates(msg) == msg \in {"EOS", "ERROR"}

\* The process is alive: no goroutine panicked, no fatal assertion failed.
Alive == ~aborted

\* Faulty variant of CtxDone: cancellation is never seen.
CtxDone_Ignored(loop) == FALSE

\* `case <-ctx.Done():` is ready.
CtxDone(loop) == loop.ctx = "caller" /\ ctxCancelled

\* `select { case <-ctx.Done(): return; default: ... }`.  With the nil
\* context attemptRestart passes, ctx.Done() is a method call on a nil
\* interface: the goroutine panics and the process ends.
LoopSelect(i) ==
    /\ Alive
    /\ i \in 1..Len(loops)
    /\ loops[i].pc = "select"
    /\ IF loops[i].ctx = "nil"
       THEN /\ loops' = [loops EXCEPT ![i].pc = "exited", ![i].exit = "panic"]
            /\ aborted' = TRUE
       ELSE /\ aborted' = aborted
            /\ IF CtxDone(loops[i])
               THEN loops' = [loops EXCEPT ![i].pc = "exited", ![i].exit = "ctx"]
               ELSE loops' = [loops EXCEPT ![i].pc = "pop"]
    /\ UNCHANGED <<sourceType, links, lastEvt, supervisorVars, recoveryVars,
                   ctxCancelled, lastPop, restart, hlsVars, otherVars>>

\* Variant: the message that ends the loop also clears the running flag.
RunningAfter_ClearedAtEnd(msg) == IF Terminates(msg) THEN FALSE ELSE running

\* p.running once the message is handled: no case of the switch writes it.
RunningAfter(msg) == running

\* msg := p.bus.TimedPop(100ms) and the switch on msg.Type().  Neither the
\* running flag nor the ErrorHandler is consulted.
TimedPop(i, msg) ==
    /\ Alive
    /\ i \in 1..Len(loops)
    /\ loops[i].pc = "pop"
    /\ LET polled == [loops[i] EXCEPT
                         !.pollsAfterCancel = @ + (IF ctxCancelled THEN 1 ELSE 0)]
       IN  IF msg = None
           THEN /\ loops' = [loops EXCEPT ![i] = [polled EXCEPT !.pc = "select"]]
                /\ lastPop' = [loop |-> i, msg |-> None, unref |-> FALSE]
           ELSE IF Terminates(msg)
           THEN /\ loops' = [loops EXCEPT ![i] =
                                [polled EXCEPT !.pc = "exited",
                                               !.exit = IF msg = "EOS" THEN "eos" ELSE "error"]]
                /\ lastPop' = [loop |-> i, msg |-> msg, unref |-> FALSE]
           ELSE /\ loops' = [loops EXCEPT ![i] = [polled EXCEPT !.pc = "select"]]
                /\ lastPop' = [loop |-> i, msg |-> msg, unref |-> TRUE]
    /\ running' = RunningAfter(msg)
    /\ UNCHANGED <<writers, readers, pc, ret, gstState, playRequests, nullRequests,
                   quitCalls, msgLoops, loopRuns, calls, entry>>
    /\ UNCHANGED <<graphVars, recoveryVars, ctxCancelled, restart, hlsVars, otherVars>>

LoopPop(i) == \E msg \in Messages \cup {None} : TimedPop(i, msg)

\* cancel() in main: the context passed to Start is done from now on.
CancelContext ==
    /\ Alive
    /\ ~ctxCancelled
    /\ ctxCancelled' = TRUE
    /\ UNCHANGED <<graphVars, supervisorVars, recoveryVars, loops, lastPop, restart, hlsVars, otherVars>>

\* The steps of Start() and Stop() once called.
PipelineStep(t) ==
    \/ StartLock(t)
    \/ StartCheck(t)
    \/ StartSetState(t)
    \/ StartSetRunning(t)
    \/ StartSpawnMessages(t)
    \/ StartSpawnLoop(t)
    \/ StartUnlock(t)
    \/ StopLock(t)
    \/ StopCheck(t)
    \/ StopSetState(t)
    \/ StopQuit(t)
    \/ StopSetRunning(t)
    \/ StopUnlock(t)

(***************************************************************************)
(* RecoveryManager.attemptRestart, run by the goroutine the error callback *)
(* or the health callback spawns.                                          *)
(***************************************************************************)
\* A goroutine that runs no attemptRestart: its position, the calls it made
\* so far, what its Start returned and the network counter it found.
NoRestart == [pc |-> "none", trace |-> <<>>, startRet |-> None, before |-> 0]

RestartFrame ==
    UNCHANGED <<graphVars, running, writers, readers, gstState, playRequests,
                nullRequests, quitCalls, msgLoops, loopRuns, entry,
                loops, ctxCancelled, lastPop, hlsVars, otherVars>>

\* `go rm.attemptRestart()` begins: rm.pipeline.Stop() is called.  The
\* goroutine is a new one, never the top-level caller's.
RestartBegin(t) ==
    /\ Alive
    /\ restartSpawned
    /\ t # Caller
    /\ restart[t].pc = "none"
    /\ \A u \in Goroutines \ {Caller} : u < t => restart[u].pc # "none"
    /\ pc[t] = "idle"
    /\ 2 * (Cardinality({u \in Goroutines : restart[u].pc # "none"}) + 1) <= MaxCalls
    /\ restart' = [restart EXCEPT ![t].pc = "stop", ![t].trace = <<"stop">>]
    /\ pc' = [pc EXCEPT ![t] = "stop_lock"]
    /\ ret' = [ret EXCEPT ![t] = None]
    /\ calls' = calls + 1
    /\ UNCHANGED recoveryVars
    /\ RestartFrame

\* Stop() returned: time.Sleep(rm.restartDelay)
RestartSleep(t) ==
    /\ Alive
    /\ restart[t].pc = "stop"
    /\ pc[t] = "idle"
    /\ restart' = [restart EXCEPT ![t].pc = "sleep", ![t].trace = Append(@, "sleep")]
    /\ UNCHANGED <<pc, ret, calls, recoveryVars>>
    /\ RestartFrame

\* rm.pipeline.Start(nil) is called.
RestartStart(t) ==
    /\ Alive
    /\ restart[t].pc = "sleep"
    /\ restart' = [restart EXCEPT ![t].pc = "start", ![t].trace = Append(@, "start")]
    /\ pc' = [pc EXCEPT ![t] = "start_lock"]
    /\ ret' = [ret EXCEPT ![t] = None]
    /\ calls' = calls + 1
    /\ UNCHANGED recoveryVars
    /\ RestartFrame

\* Faulty variant of RestartFinish: the counters are not reset.
RestartFinish_NoReset(t) ==
    /\ Alive
    /\ restart[t].pc = "start"
    /\ pc[t] = "idle"
    /\ restart' = [restart EXCEPT ![t].pc = "returned", ![t].startRet = ret[t],
                                  ![t].before = retryCount["NETWORK"]]
    /\ UNCHANGED <<pc, ret, calls, recoveryVars>>
    /\ RestartFrame

\* Start(nil) returned: on an error Errorf, else Infof and
\* rm.errorHandler.Reset(); attemptRestart returns.
RestartFinish(t) ==
    /\ Alive
    /\ restart[t].pc = "start"
    /\ pc[t] = "idle"
    /\ restart' = [restart EXCEPT ![t].pc = "returned", ![t].startRet = ret[t],
                                  ![t].before = retryCount["NETWORK"]]
    /\ IF ret[t] = "ok"
       THEN /\ retryCount' = ZeroCounts
            /\ lastError' = None
            /\ history' = <<>>
       ELSE UNCHANGED <<retryCount, lastError, history>>
    /\ UNCHANGED <<pc, ret, calls, maxRetries, callbackSet, autoRestart,
                   restartSpawned, lastActivity, isHealthy>>
    /\ RestartFrame

(***************************************************************************)
(* HLSMasterPlaylist: the variants in manifest order and the selection     *)
(* among them.  The three selectors sort h.Streams in place with           *)
(* sort.Slice, which is not stable, and return &h.Streams[0].              *)
(***************************************************************************)
\* Bound on the variants of a master playlist.
MaxStreams == 2

\* Bound on a variant's BANDWIDTH.
MaxBandwidth == 2

\* The widths and heights parseResolution yields: 0x0 when RESOLUTION is
\* missing or malformed; two of the others have the same area.
Resolutions == {<<0, 0>>, <<1, 2>>, <<2, 1>>, <<2, 2>>}

\* What the parser found for one variant; it emits none with Bandwidth <= 0.
StreamAttrs ==
    {[bandwidth |-> b, width |-> r[1], height |-> r[2]] :
        b \in 1..MaxBandwidth, r \in Resolutions}

\* An HLSStream; url stands for the address line, numbered in manifest order.
HLSStream(url, attrs) ==
    [url |-> url, bandwidth |-> attrs.bandwidth, width |-> attrs.width,
     height |-> attrs.height]

\* The playlists ParseHLSMasterPlaylist can return, and the empty one a
\* caller can construct.
Playlists ==
    UNION {{[i \in 1..n |-> HLSStream(i, attrs[i])] : attrs \in [1..n -> StreamAttrs]} :
              n \in 0..MaxStreams}

NoStream == [url |-> 0, bandwidth |-> 0, width |-> 0, height |-> 0]

\* A nil *HLSStream, returned by no selector.
NoSelection == [found |-> FALSE, stream |-> NoStream, by |-> None]

UpperCase == <<"A", "B", "C", "D", "E", "F", "G", "H", "I", "J", "K", "L", "M",
               "N", "O", "P", "Q", "R", "S", "T", "U", "V", "W", "X", "Y", "Z">>

LowerCase == <<"a", "b", "c", "d", "e", "f", "g", "h", "i", "j", "k", "l", "m",
               "n", "o", "p", "q", "r", "s", "t", "u", "v", "w", "x", "y", "z">>

\* strings.ToLower
ToLower(s) ==
    [i \in 1..Len(s) |->
        IF \E k \in 1..Len(UpperCase) : UpperCase[k] = s[i]
        THEN LowerCase[CHOOSE k \in 1..Len(UpperCase) : UpperCase[k] = s[i]]
        ELSE s[i]]

Highest == <<"h", "i", "g", "h", "e", "s", "t">>
Lowest == <<"l", "o", "w", "e", "s", "t">>
Bandwidth == <<"b", "a", "n", "d", "w", "i", "d", "t", "h">>

\* The criteria strings SelectBestStream is called with.
Criterias ==
    {Highest, Lowest, Bandwidth, <<"L", "O", "W", "E", "S", "T">>, <<"b", "e", "s", "t">>}

Resolution(stream) == stream.width * stream.height

\* Faulty variant of LessHighest: the bandwidth is compared first.
LessHighest_BandwidthFirst(a, b) ==
    IF a.bandwidth # b.bandwidth
    THEN a.bandwidth > b.bandwidth
    ELSE Resolution(a) > Resolution(b)

\* The less function of SelectHighestQuality.
LessHighest(a, b) ==
    IF Resolution(a) # Resolution(b)
    THEN Resolution(a) > Resolution(b)
    ELSE a.bandwidth > b.bandwidth

\* Faulty variant of LessLowest: the tie on the resolution is broken by the
\* higher bandwidth.
LessLowest_TieHigher(a, b) ==
    IF Resolution(a) # Resolution(b)
    THEN Resolution(a) < Resolution(b)
    ELSE a.bandwidth > b.bandwidth

\* The less function of SelectLowestQuality.
LessLowest(a, b) ==
    IF Resolution(a) # Resolution(b)
    THEN Resolution(a) < Resolution(b)
    ELSE a.bandwidth < b.bandwidth

\* Faulty variant of LessBandwidth: the resolution is compared.
LessBandwidth_Resolution(a, b) == Resolution(a) > Resolution(b)

\* The less function of SelectByBandwidth.
LessBandwidth(a, b) == a.bandwidth > b.bandwidth

Rearrangements(s) ==
    {[i \in 1..Len(s) |-> s[f[i]]] :
        f \in {g \in [1..Len(s) -> 1..Len(s)] : \A i, j \in 1..Len(s) : i # j => g[i] # g[j]}}

\* The less function each selector hands to sort.Slice.
Less(by, a, b) ==
    CASE by = "SelectHighestQuality" -> LessHighest(a, b)
      [] by = "SelectLowestQuality" -> LessLowest(a, b)
      [] by = "SelectByBandwidth" -> LessBandwidth(a, b)

\* sort.Slice(s, less): one of the orders in which no element is less than
\* an element before it.
SortSlice(s, by) ==
    {r \in Rearrangements(s) : \A i, j \in 1..Len(r) : i < j => ~Less(by, r[j], r[i])}

HlsFrame == UNCHANGED <<graphVars, supervisorVars, recoveryVars, workerVars, otherVars>>

\* The part the three selectors share: sort in place, return &h.Streams[0].
SelectFirstAfterSort(by) ==
    IF Len(streams) = 0
    THEN /\ selected' = [NoSelection EXCEPT !.by = by]
         /\ streams' = streams
    ELSE /\ streams' \in SortSlice(streams, by)
         /\ selected' = [found |-> TRUE, stream |-> streams'[1], by |-> by]

SelectHighestQuality == SelectFirstAfterSort("SelectHighestQuality")

SelectLowestQuality == SelectFirstAfterSort("SelectLowestQuality")

SelectByBandwidth == SelectFirstAfterSort("SelectByBandwidth")

SelectBestStream(c) ==
    /\ criteria' = c
    /\ IF Len(streams) = 0
       THEN /\ selected' = [NoSelection EXCEPT !.by = "SelectBestStream"]
            /\ streams' = streams
       ELSE CASE ToLower(c) = Highest -> SelectHighestQuality
              [] ToLower(c) = Lowest -> SelectLowestQuality
              [] ToLower(c) = Bandwidth -> SelectByBandwidth
              [] OTHER -> SelectHighestQuality
    /\ HlsFrame

\* ---- HLSMasterPlaylist.GetStreamByResolution ----
\* The resolutions asked for: those a variant can have and one none has.
Queries == Resolutions \cup {<<1, 1>>}

NoQuery == [asked |-> FALSE, width |-> 0, height |-> 0]

NoLookup == [found |-> FALSE, stream |-> NoStream]

\* The positions of h.Streams the condition of the loop accepts.
Matching(width, height) ==
    {i \in 1..Len(streams) : streams[i].width = width /\ streams[i].height = height}

\* Variant: the loop keeps going and returns the last match.
FirstMatch_Last(width, height) ==
    CHOOSE i \in Matching(width, height) : \A j \in Matching(width, height) : j <= i

\* range h.Streams visits the list front to back and returns at the first match.
FirstMatch(width, height) ==
    CHOOSE i \in Matching(width, height) : \A j \in Matching(width, height) : i <= j

GetStreamByResolution(width, height) ==
    /\ query' = [asked |-> TRUE, width |-> width, height |-> height]
    /\ lookup' = IF Matching(width, height) = {}
                 THEN NoLookup
                 ELSE [found |-> TRUE, stream |-> streams[FirstMatch(width, height)]]
    /\ UNCHANGED <<graphVars, supervisorVars, recoveryVars, workerVars, hlsVars>>
    /\ UNCHANGED <<manifest, parsed, builderVars, padVars, healthVars>>

\* ---- ParseHLSMasterPlaylist ----
\* Longest master playlist, in lines.
MaxLines == 3

\* The text after BANDWIDTH=: without a digit, or the number its first run of
\* digits spells.
BandwidthTexts ==
    {[digits |-> FALSE, value |-> 0]} \cup {[digits |-> TRUE, value |-> v] : v \in 0..MaxBandwidth}

\* A line after TrimSpace: "#EXT-X-STREAM-INF:" with its attributes, a line that
\* starts with "http", one that starts with "/", a relative address that starts
\* with neither, any other tag, comment or blank line.
Lines ==
    {[kind |-> "STREAM-INF", bandwidth |-> b, resolution |-> r] :
        b \in BandwidthTexts, r \in {<<0, 0>>, <<1, 2>>}}
    \cup {[kind |-> k, bandwidth |-> [digits |-> FALSE, value |-> 0], resolution |-> <<0, 0>>] :
            k \in {"http", "/", "relative", "#"}}

Manifests == UNION {[1..n -> Lines] : n \in 0..MaxLines}

parseBandwidth(bandwidth) == IF bandwidth.digits THEN bandwidth.value ELSE 0

\* Variant: every address line emits the pending stream.
Emits_Always(currentStream) == TRUE

\* if currentStream.Bandwidth > 0
Emits(currentStream) == currentStream.bandwidth > 0

\* The for scanner.Scan() loop from line k on; the result is the local streams.
RECURSIVE ScanLines(_, _, _, _)
ScanLines(lines, k, currentStream, out) ==
    IF k > Len(lines)
    THEN out
    ELSE LET line == lines[k]
             emitted == [currentStream EXCEPT !.url = k]
         IN  CASE line.kind = "STREAM-INF" ->
                    ScanLines(lines, k + 1,
                              [url |-> 0, bandwidth |-> parseBandwidth(line.bandwidth),
                               width |-> line.resolution[1], height |-> line.resolution[2]],
                              out)
               [] line.kind \in {"http", "/"} /\ Emits(currentStream) ->
                    ScanLines(lines, k + 1, emitted, Append(out, emitted))
               [] OTHER -> ScanLines(lines, k + 1, currentStream, out)

NotParsed == [done |-> FALSE, fetch |-> None, read |-> None, err |-> None, emitted |-> <<>>]

\* The error ParseHLSMasterPlaylist returns, None for nil.  fetch: what
\* client.Get gave ("ok", a "transport" error, a "status" other than 200);
\* read: whether the scanner read the body to its end; out: the local streams.
ParseError(fetch, read, out) ==
    CASE fetch # "ok" -> fetch
      [] read # "ok" -> "read"
      [] Len(out) = 0 -> "no_streams"
      [] OTHER -> None

ParseHLSMasterPlaylist(fetch, read) ==
    LET out == ScanLines(manifest, 1, NoStream, <<>>)
        err == ParseError(fetch, read, out)
    IN  /\ parsed' = [done |-> TRUE, fetch |-> fetch, read |-> read, err |-> err,
                      emitted |-> IF fetch = "ok" THEN out ELSE <<>>]
        /\ streams' = IF err = None THEN out ELSE streams
        /\ UNCHANGED <<graphVars, supervisorVars, recoveryVars, workerVars>>
        /\ UNCHANGED <<selected, criteria, query, lookup, manifest, builderVars, padVars, healthVars>>

(***************************************************************************)
(* Graph construction: New, buildPipeline, createElements, linkElements.   *)
(***************************************************************************)
\* cfg.Input.SourceType as configured: the three selectors, the empty string
\* and a name that is none of them.
ConfiguredSourceTypes == SourceTypes \cup {"", "decodebin"}

DefaultConfig ==
    [overlayEnabled |-> FALSE, overlayType |-> "", parseMasterPlaylist |-> FALSE,
     streamSelection |-> <<>>, preferred |-> <<0, 0>>, output |-> <<0, 0>>]

NotBuilt ==
    [done |-> FALSE, by |-> None, returned |-> FALSE, err |-> None, nodes |-> {},
     linkers |-> {}, uri |-> 0, parseErr |-> None, filled |-> {}, uses |-> {},
     output |-> <<0, 0>>]

\* Variant: a name that is no selector creates the source node alone.
createSourceElement_NoFallback(st) ==
    CASE st = "souphttpsrc" -> {"source", "demux", "tsdemux"}
      [] OTHER -> {"source"}

\* The slots createSourceElement fills: p.source, and p.demux and p.tsdemux in
\* createSouphttpsrcSource, which the default case runs too.
createSourceElement(st) ==
    CASE st = "playbin3" -> {"source"}
      [] st = "urisourcebin" -> {"source"}
      [] OTHER -> {"source", "demux", "tsdemux"}

\* The overlay slot: filled only if the overlay is enabled with type text or image.
OverlayNodes == IF config.overlayEnabled /\ config.overlayType \in {"text", "image"}
                THEN {"overlay"} ELSE {}

\* Faulty variant of OverlayLinked: the chain follows the configuration flag.
OverlayLinked_ByFlag(filled) == config.overlayEnabled

\* `if p.overlay != nil` in createElements and in linkVideoChain.
OverlayLinked(filled) == "overlay" \in filled

\* The optional slots (p.demux, p.tsdemux, p.overlay) that createElements,
\* linkElements and the callbacks they register call a method on or hand to
\* Link, given the slots that are filled.  Start and Stop touch p.pipeline
\* only.
Dereferenced(st, filled) ==
    LET configured == IF config.overlayEnabled /\ config.overlayType \in {"text", "image"}
                      THEN {"overlay"} ELSE {}
        chained == IF OverlayLinked(filled) THEN {"overlay"} ELSE {}
        manual == IF "demux" \in linkElements(st) THEN {"demux", "tsdemux"} ELSE {}
    IN  configured \cup chained \cup manual

\* New of pipeline.go.  missing: the node kind the runtime cannot create, if
\* any; linked: "ok", or the static link that fails ("source" to the
\* demultiplexer, one of the "common" chains).
New(missing, linked) ==
    LET nodes == createSourceElement(sourceType) \cup OverlayNodes
        created == missing \notin nodes \cup {"other"}
        linkFails == \/ linked = "source" /\ "demux" \in nodes
                     \/ linked = "common"
    IN  /\ built' = [NotBuilt EXCEPT
                        !.done = TRUE,
                        !.by = "New",
                        !.returned = created /\ ~linkFails,
                        !.err = CASE ~created -> "create" [] linkFails -> "link" [] OTHER -> None,
                        !.nodes = IF created /\ ~linkFails THEN nodes ELSE {},
                        !.linkers = IF created /\ ~linkFails
                                    THEN linkElements(sourceType) ELSE {},
                        !.filled = IF created THEN nodes ELSE {},
                        !.uses = IF created THEN Dereferenced(sourceType, nodes) ELSE {}]
        /\ UNCHANGED <<graphVars, supervisorVars, recoveryVars, workerVars, hlsVars>>
        /\ UNCHANGED <<parserVars, config, padVars, healthVars>>

\* SelectBestStream's dispatch on the criteria.
SelectorOf(c) ==
    CASE ToLower(c) = Highest -> "SelectHighestQuality"
      [] ToLower(c) = Lowest -> "SelectLowestQuality"
      [] ToLower(c) = Bandwidth -> "SelectByBandwidth"
      [] OTHER -> "SelectHighestQuality"

\* `outputWidth := 1920; outputHeight := 1080`
DefaultOutput == <<1920, 1080>>

\* Faulty variant of OutputResolution: the preferred resolution comes first.
OutputResolution_PreferredFirst(cfg) ==
    IF cfg.preferred[1] > 0 /\ cfg.preferred[2] > 0 THEN cfg.preferred
    ELSE IF cfg.output[1] > 0 /\ cfg.output[2] > 0 THEN cfg.output
    ELSE DefaultOutput

\* createElements: the size the scaler's caps filter is given.
OutputResolution(cfg) ==
    IF cfg.output[1] > 0 /\ cfg.output[2] > 0 THEN cfg.output
    ELSE IF cfg.preferred[1] > 0 /\ cfg.preferred[2] > 0 THEN cfg.preferred
    ELSE DefaultOutput

\* New of the playbin3 pipeline with manifest resolution, through
\* createPlaybin3Source.  fetch, read: as for ParseHLSMasterPlaylist; created:
\* whether the runtime can create every node.
createPlaybin3Source(fetch, read, created) ==
    LET out == ScanLines(manifest, 1, NoStream, <<>>)
        perr == ParseError(fetch, read, out)
        selection == IF config.streamSelection = <<>> THEN Highest
                     ELSE config.streamSelection
        resolved == config.parseMasterPlaylist /\ perr = None
    IN  \E sorted \in IF resolved THEN SortSlice(out, SelectorOf(selection)) ELSE {<<NoStream>>} :
            /\ config' = IF resolved /\ config.preferred = <<0, 0>>
                         THEN [config EXCEPT !.preferred = <<sorted[1].width, sorted[1].height>>]
                         ELSE config
            /\ built' = [NotBuilt EXCEPT
                            !.output = IF created THEN OutputResolution(config') ELSE <<0, 0>>,
                            !.done = TRUE,
                            !.by = "createPlaybin3Source",
                            !.returned = created,
                            !.err = IF created THEN None ELSE "create",
                            !.nodes = IF created THEN {"source"} ELSE {},
                            !.uri = sorted[1].url,
                            !.parseErr = IF config.parseMasterPlaylist THEN perr ELSE None]
            /\ UNCHANGED <<graphVars, supervisorVars, recoveryVars, workerVars, hlsVars>>
            /\ UNCHANGED <<parserVars, padVars, healthVars>>

(***************************************************************************)
(* The source node's pad-added linker (playbin3, urisourcebin) step by     *)
(* step.  The callbacks of two pads run on the streaming threads that      *)
(* created the pads, so one can run between the IsLinked check and the     *)
(* pad.Link call of the other.  Nothing is connected to a pad's later      *)
(* descriptor changes.                                                     *)
(***************************************************************************)
\* The pads the source node creates: a video and an audio pad at least.
SourcePads == 1..(MaxPads + 1)

SourcePort(k) == <<sourceType, k>>

\* A pad: how far its callback is ("absent": pad not created, "linking":
\* between the IsLinked check and pad.Link, "done"), the media type the
\* callback read (<<>>: none), the intake it chose, the branch it took and the
\* media type the pad negotiated after the callback returned (<<>>: none).
NoPad == [phase |-> "absent", mediaType |-> <<>>, target |-> None, log |-> None,
          negotiated |-> <<>>]

PadFrame ==
    UNCHANGED <<sourceType, lastEvt, aborted, supervisorVars, recoveryVars, workerVars,
                hlsVars, parserVars, builderVars, probe, healthVars>>

\* Variant: one intake for both families.
SourceTarget_OneIntake(mediaType) ==
    IF HasPrefix(mediaType, VideoSlash) \/ HasPrefix(mediaType, AudioSlash)
    THEN "videoQueue" ELSE None

\* The intake the registered source linker chooses.
SourceTarget(mediaType) ==
    IF sourceType = "playbin3" THEN Playbin3Target(mediaType)
    ELSE UrisourcebinTarget(mediaType)

\* The callback up to `if sinkPad != nil && !sinkPad.IsLinked()`.
SourcePadAdded(k, caps) ==
    /\ Alive
    /\ sourceType \in linkElements(sourceType)
    /\ pads[k].phase = "absent"
    /\ pads' = [pads EXCEPT ![k] =
            IF ~CapsUsable(caps)
            THEN [NoPad EXCEPT !.phase = "done", !.log = "no_caps"]
            ELSE LET target == SourceTarget(caps.structs[1])
                     at == [NoPad EXCEPT !.mediaType = caps.structs[1], !.target = target]
                 IN  CASE target = None -> [at EXCEPT !.phase = "done", !.log = "dropped"]
                       [] target # None /\ ~SinkPadFree(target) ->
                            [at EXCEPT !.phase = "done", !.log = "already_linked"]
                       [] OTHER -> [at EXCEPT !.phase = "linking"]]
    /\ links' = links
    /\ PadFrame

\* pad.Link(sinkPad) and the log line after it.
SourcePadLink(k, accept) ==
    /\ Alive
    /\ pads[k].phase = "linking"
    /\ IF PadLink(SourcePort(k), pads[k].target, accept)
       THEN /\ links' = links \cup {<<SourcePort(k), pads[k].target>>}
            /\ pads' = [pads EXCEPT ![k].phase = "done", ![k].log = "linked"]
       ELSE /\ links' = links
            /\ pads' = [pads EXCEPT ![k].phase = "done", ![k].log = "link_failed"]
    /\ PadFrame

\* A pad whose callback found no descriptor negotiates one later.  The code
\* connects to pad-added only: no code runs.
CapsNegotiated(k, mediaType) ==
    /\ Alive
    /\ pads[k].phase = "done"
    /\ pads[k].log = "no_caps"
    /\ pads[k].negotiated = <<>>
    /\ pads' = [pads EXCEPT ![k].negotiated = mediaType]
    /\ links' = links
    /\ PadFrame

(***************************************************************************)
(* How each callback obtains the descriptor of its new pad.                *)
(***************************************************************************)
\* Which callback ran, the descriptor the pad had negotiated, whether the
\* callback queried the pad, and the descriptor it went on with.
NoProbe == [cb |-> None, current |-> NilCaps, queried |-> FALSE, caps |-> NilCaps]

\* The callbacks that contain `if caps == nil { caps = pad.QueryCaps(nil) }`.
QueriesCaps(cb) == cb \in {"demux", "tsdemux", "playbin3", "urisourcebin"}

\* caps := pad.GetCurrentCaps() and, where the callback has it, the query.
GetCaps(cb, current) ==
    /\ Alive
    /\ cb \in linkElements(sourceType)
    /\ LET queried == current.isNil /\ QueriesCaps(cb)
       IN  \E caps \in IF queried THEN DescriptorsOrNil ELSE {current} :
              probe' = [cb |-> cb, current |-> current, queried |-> queried, caps |-> caps]
    /\ UNCHANGED <<graphVars, supervisorVars, recoveryVars, workerVars, hlsVars>>
    /\ UNCHANGED <<parserVars, builderVars, pads, healthVars>>

(***************************************************************************)
(* HealthChecker (errors.go).  The clock counts ticker periods of ten      *)
(* seconds; one pass of the monitor loop is one step, because the monitor  *)
(* goroutine is the only writer of isHealthy.                              *)
(***************************************************************************)
\* Latest clock value explored.
MaxTime == 5

\* NewHealthChecker(pipeline, 10*time.Second, 30*time.Second): the timeout
\* threshold, in ticker periods.
TimeoutThreshold == 3

\* What a pass of the monitor loop read (Pipeline.running, the time since
\* lastActivity, the recorded isHealthy), what checkHealth returned, and
\* whether the pass called healthCallback and spawned attemptRestart.
NoProbeYet == [probed |-> FALSE, ran |-> FALSE, since |-> 0, previous |-> TRUE,
               result |-> TRUE, notified |-> FALSE, restarted |-> FALSE]

\* Faulty variant of Expired: the threshold itself counts as exceeded.
Expired_AtThreshold(since) == since >= TimeoutThreshold

\* time.Since(hc.lastActivity) > hc.timeoutThreshold
Expired(since) == since > TimeoutThreshold

\* Faulty variant of checkHealth: the activity check is missing.
checkHealth_IgnoresActivity == running

checkHealth ==
    IF ~running THEN FALSE
    ELSE IF Expired(now - lastActivity) THEN FALSE
    ELSE TRUE

\* Faulty variant of Changed: every pass counts as a change.
Changed_Always(healthy) == TRUE

\* `if healthy != hc.isHealthy`
Changed(healthy) == healthy # isHealthy

HealthFrame ==
    UNCHANGED <<graphVars, supervisorVars, maxRetries, retryCount, lastError,
                callbackSet, autoRestart, history, workerVars, hlsVars,
                parserVars, builderVars, padVars>>

\* Time passes.
AdvanceClock ==
    /\ now < MaxTime
    /\ now' = now + 1
    /\ UNCHANGED <<health, lastActivity, isHealthy, restartSpawned>>
    /\ HealthFrame

UpdateActivity ==
    /\ lastActivity' = now
    /\ UNCHANGED <<now, health, isHealthy, restartSpawned>>
    /\ HealthFrame

\* One tick of the monitor loop.  checkHealth calls IsRunning, which takes
\* the read lock; the callback RecoveryManager.Start installs spawns
\* attemptRestart when `!healthy && rm.autoRestart`.
monitor ==
    /\ Alive
    /\ writers = {}
    /\ LET healthy == checkHealth
           notified == Changed(healthy) /\ callbackSet
           restarted == notified /\ ~healthy /\ autoRestart
       IN  /\ isHealthy' = IF Changed(healthy) THEN healthy ELSE isHealthy
           /\ restartSpawned' = (restartSpawned \/ restarted)
           /\ health' = [probed |-> TRUE, ran |-> running, since |-> now - lastActivity,
                         previous |-> isHealthy, result |-> healthy,
                         notified |-> notified, restarted |-> restarted]
    /\ UNCHANGED <<now, lastActivity>>
    /\ HealthFrame

(***************************************************************************)
(* Initial states and specifications.                                      *)
(***************************************************************************)
\* buildPipeline: no dynamic pad exists yet.
InitGraph ==
    /\ links = {}
    /\ lastEvt = NoEvt
    /\ aborted = FALSE

\* The goroutines that call into the Pipeline are idle.
InitCallers ==
    /\ writers = {}
    /\ readers = {}
    /\ pc = [t \in Goroutines |-> "idle"]
    /\ ret = [t \in Goroutines |-> None]
    /\ entry = [t \in Goroutines |-> NoEntry]
    /\ calls = 0

\* New: the Pipeline is stopped.
InitStopped ==
    /\ running = FALSE
    /\ gstState = "NULL"
    /\ playRequests = 0
    /\ nullRequests = 0
    /\ quitCalls = 0
    /\ msgLoops = 0
    /\ loopRuns = 0
    /\ loops = <<>>

\* The Pipeline after one Start.
InitStarted ==
    /\ running = TRUE
    /\ gstState = "PLAYING"
    /\ playRequests = 1
    /\ nullRequests = 0
    /\ quitCalls = 0
    /\ msgLoops = 1
    /\ loopRuns = 1
    /\ loops = <<NewLoop("caller", Caller)>>

\* NewErrorHandler, NewHealthChecker
InitErrorHandler ==
    /\ retryCount = ZeroCounts
    /\ lastError = None
    /\ history = <<>>
    /\ restartSpawned = FALSE
    /\ lastActivity = 0
    /\ isHealthy = TRUE

\* No context is cancelled, no message was handled, no attemptRestart runs.
InitWorkers ==
    /\ ctxCancelled = FALSE
    /\ lastPop = NoPop
    /\ restart = [t \in Goroutines |-> NoRestart]

\* ParseHLSMasterPlaylist and GetStreamByResolution were not called.
InitParser ==
    /\ query = NoQuery
    /\ lookup = NoLookup
    /\ manifest = <<>>
    /\ parsed = NotParsed

\* New was not called.
InitBuilder ==
    /\ config = DefaultConfig
    /\ built = NotBuilt

\* The source node has created no pad.
InitPads ==
    /\ pads = [k \in SourcePads |-> NoPad]
    /\ probe = NoProbe
    /\ now = 0
    /\ health = NoProbeYet

\* No master playlist was fetched.
InitHls ==
    /\ streams = <<>>
    /\ selected = NoSelection
    /\ criteria = <<>>

\* NewRecoveryManager, RecoveryManager.Start not called.
InitRecoveryManager ==
    /\ maxRetries = DefaultMaxRetries
    /\ callbackSet = FALSE
    /\ autoRestart = FALSE
    /\ InitErrorHandler

Init ==
    /\ sourceType = "souphttpsrc"
    /\ InitGraph
    /\ InitCallers
    /\ InitStopped
    /\ InitRecoveryManager
    /\ InitWorkers
    /\ InitParser
    /\ InitBuilder
    /\ InitPads
    /\ InitHls

Next ==
    \E t \in Goroutines :
        \/ CallStart(t)
        \/ StartLock(t)
        \/ StartCheck(t)
        \/ StartSetState(t)
        \/ StartSetRunning(t)
        \/ StartSpawnMessages(t)
        \/ StartSpawnLoop(t)
        \/ StartUnlock(t)
        \/ CallStop(t)
        \/ StopLock(t)
        \/ StopCheck(t)
        \/ StopSetState(t)
        \/ StopQuit(t)
        \/ StopSetRunning(t)
        \/ StopUnlock(t)
        \/ CallIsRunning(t)
        \/ IsRunningRLock(t)
        \/ IsRunningRead(t)

Spec == Init /\ [][Next]_vars

\* The linkers run for every source type, before and after Start.
InitLinker ==
    /\ sourceType \in SourceTypes
    /\ InitGraph
    /\ InitCallers
    /\ (InitStopped \/ InitStarted)
    /\ InitRecoveryManager
    /\ InitWorkers
    /\ InitParser
    /\ InitBuilder
    /\ InitPads
    /\ InitHls

NextLinker ==
    \/ DemuxPadAdded
    \/ TsdemuxPadAdded
    \/ Playbin3PadAdded
    \/ UrisourcebinPadAdded
    \/ VideoDecodePadAdded
    \/ AudioDecodePadAdded

SpecLinker == InitLinker /\ [][NextLinker]_vars

\* An ErrorHandler with any maxRetries, with or without the
\* RecoveryManager's callback.
InitRecovery ==
    /\ sourceType = "souphttpsrc"
    /\ InitGraph
    /\ InitCallers
    /\ InitStopped
    /\ maxRetries \in 0..MaxRetriesBound
    /\ callbackSet \in BOOLEAN
    /\ autoRestart \in BOOLEAN
    /\ InitErrorHandler
    /\ InitWorkers
    /\ InitParser
    /\ InitBuilder
    /\ InitPads
    /\ InitHls

NextRecovery ==
    \/ \E errorType \in ErrorTypes : HandleError(errorType)
    \/ Reset

SpecRecovery == InitRecovery /\ [][NextRecovery]_vars

\* The top-level caller starts and stops the graph and cancels its
\* context; the handleMessages goroutines run beside it.
InitEvents ==
    /\ sourceType = "souphttpsrc"
    /\ InitGraph
    /\ InitCallers
    /\ InitStopped
    /\ InitRecoveryManager
    /\ InitWorkers
    /\ InitParser
    /\ InitBuilder
    /\ InitPads
    /\ InitHls

NextEvents ==
    \/ Alive /\ msgLoops < MaxLoops /\ CallStart(Caller)
    \/ Alive /\ CallStop(Caller)
    \/ Alive /\ PipelineStep(Caller)
    \/ \E i \in 1..MaxLoops : LoopSelect(i)
    \/ \E i \in 1..MaxLoops : LoopPop(i)
    \/ CancelContext

SpecEvents == InitEvents /\ [][NextEvents]_vars

\* SpecEvents with IsRunning called by the top-level caller as well.
NextObserved ==
    \/ NextEvents
    \/ Alive /\ CallIsRunning(Caller)
    \/ Alive /\ (IsRunningRLock(Caller) \/ IsRunningRead(Caller))

SpecObserved == InitEvents /\ [][NextObserved]_vars

\* One run of main(): Start(ctx) is called once, Stop() any number of
\* times, cancel() at any moment.
NextEventsFair ==
    \/ Alive /\ playRequests = 0 /\ CallStart(Caller)
    \/ Alive /\ CallStop(Caller)
    \/ Alive /\ PipelineStep(Caller)
    \/ \E i \in 1..MaxLoops : LoopSelect(i)
    \/ \E i \in 1..MaxLoops : LoopPop(i)
    \/ CancelContext

\* The Go scheduler runs every runnable goroutine: a loop that can take a
\* step takes it, a Start() or Stop() that was called runs to its end.
\* Nothing obliges the caller to call or to cancel.
SpecEventsFair ==
    /\ InitEvents
    /\ [][NextEventsFair]_vars
    /\ \A i \in 1..MaxLoops : WF_vars(LoopSelect(i)) /\ WF_vars(LoopPop(i))
    /\ WF_vars(Alive /\ PipelineStep(Caller))

\* A started RecoveryManager with auto-restart on a running graph: network
\* faults are reported, the restarts they spawn run concurrently.
InitRestart ==
    /\ sourceType = "souphttpsrc"
    /\ InitGraph
    /\ InitCallers
    /\ InitStarted
    /\ maxRetries = DefaultMaxRetries
    /\ callbackSet = TRUE
    /\ autoRestart = TRUE
    /\ InitErrorHandler
    /\ InitWorkers
    /\ InitParser
    /\ InitBuilder
    /\ InitPads
    /\ InitHls

NextRestart ==
    \/ Alive /\ HandleError("NETWORK")
    \/ \E t \in Goroutines : RestartBegin(t)
    \/ \E t \in Goroutines : Alive /\ PipelineStep(t)
    \/ \E t \in Goroutines : RestartSleep(t)
    \/ \E t \in Goroutines : RestartStart(t)
    \/ \E t \in Goroutines : RestartFinish(t)
    \/ \E i \in 1..Len(loops) : LoopSelect(i)
    \/ \E i \in 1..Len(loops) : TimedPop(i, None)

SpecRestart == InitRestart /\ [][NextRestart]_vars

\* SelectBestStream and the selectors on every playlist within the bounds.
InitSelect ==
    /\ sourceType = "playbin3"
    /\ InitGraph
    /\ InitCallers
    /\ InitStopped
    /\ InitRecoveryManager
    /\ InitWorkers
    /\ InitParser
    /\ InitBuilder
    /\ InitPads
    /\ streams \in Playlists
    /\ selected = NoSelection
    /\ criteria = <<>>

NextSelect == \E c \in Criterias : SelectBestStream(c)

SpecSelect == InitSelect /\ [][NextSelect]_vars

\* ParseHLSMasterPlaylist on every master playlist within the bounds.
InitParse ==
    /\ sourceType = "playbin3"
    /\ InitGraph
    /\ InitCallers
    /\ InitStopped
    /\ InitRecoveryManager
    /\ InitWorkers
    /\ InitHls
    /\ InitBuilder
    /\ InitPads
    /\ query = NoQuery
    /\ lookup = NoLookup
    /\ manifest \in Manifests
    /\ parsed = NotParsed

NextParse ==
    \E fetch \in {"ok", "transport", "status"}, read \in {"ok", "error"} :
        ParseHLSMasterPlaylist(fetch, read)

SpecParse == InitParse /\ [][NextParse]_vars

\* main() shutting down while the RecoveryManager restarts the graph: the
\* faults and restart tasks of SpecRestart, and the one Stop main() calls
\* before it returns.
NextShutdown ==
    \/ NextRestart
    \/ Alive /\ ret[Caller] = None /\ CallStop(Caller)

SpecShutdown == InitRestart /\ [][NextShutdown]_vars

\* The pads of a playbin3 or urisourcebin source, their callbacks interleaved.
InitSourcePads ==
    /\ sourceType \in {"playbin3", "urisourcebin"}
    /\ InitGraph
    /\ InitCallers
    /\ InitStopped
    /\ InitRecoveryManager
    /\ InitWorkers
    /\ InitParser
    /\ InitBuilder
    /\ InitPads
    /\ InitHls

NextSourcePads ==
    \/ \E k \in SourcePads, caps \in ResolvedCaps : SourcePadAdded(k, caps)
    \/ \E k \in SourcePads, accept \in BOOLEAN : SourcePadLink(k, accept)
    \/ \E k \in SourcePads, mediaType \in {VideoXRaw, AudioMpeg} : CapsNegotiated(k, mediaType)

SpecSourcePads == InitSourcePads /\ [][NextSourcePads]_vars

\* The same with every callback that began running to its end.
SpecSourcePadsFair ==
    /\ SpecSourcePads
    /\ \A k \in SourcePads : WF_vars(\E accept \in BOOLEAN : SourcePadLink(k, accept))

\* The first lines of every registered callback, for every negotiated
\* descriptor a new pad can carry.
InitCaps ==
    /\ sourceType \in ConfiguredSourceTypes
    /\ InitGraph
    /\ InitCallers
    /\ InitStopped
    /\ InitRecoveryManager
    /\ InitWorkers
    /\ InitParser
    /\ InitBuilder
    /\ InitPads
    /\ InitHls

NextCaps == \E cb \in Callbacks, current \in DescriptorsOrNil : GetCaps(cb, current)

SpecCaps == InitCaps /\ [][NextCaps]_vars

\* A HealthChecker over a Pipeline the top-level caller starts and stops;
\* with or without the callback of RecoveryManager.Start.
InitHealth ==
    /\ sourceType = "souphttpsrc"
    /\ InitGraph
    /\ InitCallers
    /\ InitStopped
    /\ maxRetries = DefaultMaxRetries
    /\ callbackSet \in BOOLEAN
    /\ autoRestart \in BOOLEAN
    /\ InitErrorHandler
    /\ InitWorkers
    /\ InitParser
    /\ InitBuilder
    /\ InitPads
    /\ InitHls

NextHealth ==
    \/ AdvanceClock
    \/ UpdateActivity
    \/ monitor
    \/ Alive /\ msgLoops < MaxLoops /\ CallStart(Caller)
    \/ Alive /\ CallStop(Caller)
    \/ Alive /\ PipelineStep(Caller)

SpecHealth == InitHealth /\ [][NextHealth]_vars

\* RecoveryManager.Start over a started Pipeline.  The ticker keeps firing,
\* time keeps passing, and a caller inside Start or Stop goes on.
InitHealthFair ==
    /\ sourceType = "souphttpsrc"
    /\ InitGraph
    /\ InitCallers
    /\ InitStarted
    /\ maxRetries = DefaultMaxRetries
    /\ callbackSet = TRUE
    /\ autoRestart \in BOOLEAN
    /\ InitErrorHandler
    /\ InitWorkers
    /\ InitParser
    /\ InitBuilder
    /\ InitPads
    /\ InitHls

SpecHealthFair ==
    /\ InitHealthFair
    /\ [][NextHealth]_vars
    /\ WF_vars(AdvanceClock)
    /\ WF_vars(monitor)
    /\ WF_vars(Alive /\ PipelineStep(Caller))

\* New of pipeline.go for every source type and overlay setting.
InitBuild ==
    /\ sourceType \in ConfiguredSourceTypes
    /\ InitGraph
    /\ InitCallers
    /\ InitStopped
    /\ InitRecoveryManager
    /\ InitWorkers
    /\ InitHls
    /\ InitParser
    /\ InitPads
    /\ config \in {[DefaultConfig EXCEPT !.overlayEnabled = e, !.overlayType = t] :
                     e \in BOOLEAN, t \in {"text", "image", ""}}
    /\ built = NotBuilt

NextBuild ==
    \E missing \in {None, "source", "demux", "tsdemux", "overlay", "other"},
       linked \in {"ok", "source", "common"} : New(missing, linked)

SpecBuild == InitBuild /\ [][NextBuild]_vars

\* New of the playbin3 pipeline for every master playlist of up to
\* MaxLines - 1 lines and every input configuration.
InitResolve ==
    /\ sourceType = "playbin3"
    /\ InitGraph
    /\ InitCallers
    /\ InitStopped
    /\ InitRecoveryManager
    /\ InitWorkers
    /\ InitHls
    /\ InitPads
    /\ query = NoQuery
    /\ lookup = NoLookup
    /\ manifest \in {m \in Manifests : Len(m) < MaxLines}
    /\ parsed = NotParsed
    /\ config \in {[DefaultConfig EXCEPT !.parseMasterPlaylist = e, !.streamSelection = c,
                                         !.preferred = r, !.output = o] :
                     e \in BOOLEAN, c \in {<<>>, Lowest}, r \in {<<0, 0>>, <<2, 1>>},
                     o \in {<<0, 0>>, <<3, 3>>}}
    /\ built = NotBuilt

NextResolve ==
    \E fetch \in {"ok", "transport", "status"}, read \in {"ok", "error"}, created \in BOOLEAN :
        createPlaybin3Source(fetch, read, created)

SpecResolve == InitResolve /\ [][NextResolve]_vars

\* GetStreamByResolution on every playlist within the bounds, in every list order.
NextLookup == \E q \in Queries : GetStreamByResolution(q[1], q[2])

SpecLookup == InitSelect /\ [][NextLookup]_vars

\* Selections and lookups on the same playlist, in any order.
SpecSelectLookup == InitSelect /\ [][NextSelect \/ NextLookup]_vars

(***************************************************************************)
(* Properties of the linkers (checked under SpecLinker).                   *)
(***************************************************************************)
TransportStreamFamily == {VideoMpegts, VideoMp2t}

VideoFamily == {VideoMpegts, VideoMp2t, VideoMpeg, VideoXRaw}

AudioFamily == {AudioMpeg}

UpstreamOf(intake) == {l \in links : l[2] = intake}

\* C1: in every port-creation callback, entry 0 of the descriptor is read
\* only when the descriptor is non-nil and has at least one entry; for a nil
\* or empty descriptor no entry is read and no media type is produced.
C1_EntryZeroGuarded ==
    /\ lastEvt.read0 => lastEvt.capsLen >= 1
    /\ (lastEvt.cb # None /\ lastEvt.capsLen < 1) => (~lastEvt.read0 /\ ~lastEvt.typed)

\* C5: every intake has at most one upstream port, and a port-creation event
\* whose target intake is linked already changes no link, takes the
\* already-linked branch (a warning, not an error) and touches neither the
\* supervisor nor the recovery manager nor the health checker.
C5_AtMostOneUpstream == \A intake \in Intakes : Cardinality(UpstreamOf(intake)) <= 1

C5_LinkedIntakeRefused ==
    (lastEvt'.target # None /\ IsLinked(lastEvt'.target))
        => /\ links' = links
           /\ lastEvt'.log = "already_linked"
           /\ ~aborted'
           /\ UNCHANGED <<supervisorVars, recoveryVars>>

C5_NeverRelinked == []C5_AtMostOneUpstream /\ [][C5_LinkedIntakeRefused]_vars

\* C5 witness: a port was announced for an intake that another port holds.
C5_Witness ==
    /\ lastEvt.log = "already_linked"
    /\ <<lastEvt.port, lastEvt.target>> \notin links
    /\ IsLinked(lastEvt.target)

C6_ExpectedTarget(mediaType) ==
    IF mediaType \in TransportStreamFamily THEN "tsdemux"
    ELSE IF mediaType \in VideoFamily THEN "videoQueue"
    ELSE IF mediaType \in AudioFamily THEN "audioQueue"
    ELSE None

C6_Dispatch ==
    (lastEvt.cb = "demux" /\ lastEvt.typed)
        => /\ lastEvt.target = C6_ExpectedTarget(lastEvt.mediaType)
           /\ lastEvt.target = None => lastEvt.log = "dropped"
           /\ lastEvt.log = "linked" => <<lastEvt.port, lastEvt.target>> \in links

C6_LinksOnlyExpected ==
    (lastEvt'.cb = "demux" /\ lastEvt'.typed)
        => LET expected == C6_ExpectedTarget(lastEvt'.mediaType)
           IN  /\ (links' \ links) \subseteq {<<lastEvt'.port, expected>>}
               /\ expected = None => links' = links
               /\ (expected # None /\ ~IsLinked(expected) /\ ~PortIsLinked(lastEvt'.port))
                     => lastEvt'.log \in {"linked", "link_failed"}

\* C6: the primary demultiplexer's linker links a transport-stream port to
\* the secondary demultiplexer's intake and never to the video intake, any
\* other video/ port to the video intake, an audio/ port to the audio intake,
\* and leaves a port with any other name unlinked.
C6_PrimaryDemuxDispatch == []C6_Dispatch /\ [][C6_LinksOnlyExpected]_vars

\* C6 witness: a transport-stream port was linked to the secondary demultiplexer.
C6_Witness ==
    /\ lastEvt.cb = "demux"
    /\ lastEvt.mediaType \in TransportStreamFamily
    /\ lastEvt.log = "linked"
    /\ <<lastEvt.port, "tsdemux">> \in links

\* C7: a port-creation event whose descriptor is nil or empty establishes no
\* link, changes no graph or supervisor state, and the process keeps running.
C7_EmptyDescriptorNoEffect ==
    [][(lastEvt'.cb # None /\ lastEvt'.capsLen < 1)
          => /\ links' = links
             /\ ~aborted'
             /\ UNCHANGED <<supervisorVars, recoveryVars>>]_vars

C8_IntakeStaysUsable ==
    lastEvt.log = "link_failed"
        => /\ ~IsLinked(lastEvt.target)
           /\ ~aborted
           /\ \A port \in PortsOf(lastEvt.cb) :
                 ~PortIsLinked(port)
                    => SinkPadFree(lastEvt.target) /\ PadLink(port, lastEvt.target, TRUE)

C8_FailureChangesNothing ==
    lastEvt'.log = "link_failed"
        => /\ links' = links
           /\ UNCHANGED <<supervisorVars, recoveryVars>>

\* C8: when the runtime rejects a link, the graph state is unchanged (no
\* stop, no restart), the target intake stays unlinked, and a later port of
\* the same kind can still be linked to it.
C8_RejectedLinkTolerated == []C8_IntakeStaysUsable /\ [][C8_FailureChangesNothing]_vars

\* C8 witness: the runtime rejected a link while the graph was running.
C8_Witness ==
    /\ lastEvt.log = "link_failed"
    /\ running
    /\ ~PortIsLinked(lastEvt.port)

(***************************************************************************)
(* Properties of Start / Stop / IsRunning (checked under Spec).            *)
(***************************************************************************)
InBody(t) == pc[t] \in StartBody \cup StopBody

Quiescent == \A t \in Goroutines : ~InBody(t)

\* C2: Start() on a running graph returns the already-running error and
\* changes nothing: the graph stays Running, no state transition is
\* requested and no handleMessages or main-loop goroutine is spawned.
C2_StartWhileRunningRefused ==
    \A t \in Goroutines :
        (pc[t] \in StartBody /\ entry[t].running)
            => /\ pc[t] \in {"start_check", "start_unlock"}
               /\ Graph = entry[t]
               /\ pc[t] = "start_unlock" => ret[t] = "already_running"

\* C2 witness: a Start() found the graph running and is about to return.
C2_Witness ==
    \E t \in Goroutines :
        /\ pc[t] = "start_unlock"
        /\ entry[t].running
        /\ ret[t] = "already_running"

\* C3: Stop() ends with the graph Stopped and returns nil, and a Stop() on a
\* stopped graph (the second of two in a row) changes nothing: no state
\* transition is requested and the main loop is not quit again.
C3_StopIdempotent ==
    \A t \in Goroutines :
        /\ pc[t] = "stop_unlock"
              => (~running /\ gstState = "NULL" /\ ret[t] = "nil")
        /\ (pc[t] \in StopBody /\ ~entry[t].running)
              => (pc[t] \in {"stop_check", "stop_unlock"} /\ Graph = entry[t])

\* C3 witness: a Stop() on a graph an earlier Stop() stopped is about to return.
C3_Witness ==
    \E t \in Goroutines :
        /\ pc[t] = "stop_unlock"
        /\ ~entry[t].running
        /\ entry[t].nullRequests >= 1

\* C4: the bodies of Start() and Stop() never overlap; between them every
\* effective Start() requested PLAYING once and spawned each worker once, so
\* of concurrent Start() calls on a stopped graph one succeeds; IsRunning()
\* reads the flag only while no Start() or Stop() is in its body.
C4_StartStopExclusive ==
    /\ Cardinality({t \in Goroutines : InBody(t)}) <= 1
    /\ (\E t \in Goroutines : pc[t] = "isrunning_read") => Quiescent
    /\ Quiescent
          => /\ running <=> gstState = "PLAYING"
             /\ playRequests = nullRequests + (IF running THEN 1 ELSE 0)
             /\ msgLoops = playRequests
             /\ loopRuns = playRequests
             /\ quitCalls = nullRequests
    /\ nullRequests = 0
          => /\ Cardinality({t \in Goroutines : ret[t] = "ok"}) <= 1
             /\ playRequests <= 1
             /\ \A t \in Goroutines :
                   (pc[t] = "start_unlock" /\ playRequests = 1)
                       => ret[t] \in {"ok", "already_running"}

\* C4 witness: of two Start() calls on a graph never stopped, one succeeded
\* and the other, which waited for the mutex meanwhile, was refused.
C4_Witness ==
    \E t, u \in Goroutines :
        /\ t # u
        /\ nullRequests = 0
        /\ ret[t] = "ok"
        /\ pc[u] = "start_unlock"
        /\ ret[u] = "already_running"
        /\ calls = 2

(***************************************************************************)
(* Properties of the ErrorHandler (checked under SpecRecovery).            *)
(***************************************************************************)
NetworkFaultsUpTo(i) == Cardinality({j \in 1..i : history[j].type = "NETWORK"})

\* C9: counting from a zero counter, the first maxRetries network faults
\* are approved for retry, the next one and every later one is refused.
C9_BoundedNetworkRetries ==
    \A i \in 1..Len(history) :
        history[i].type = "NETWORK"
            => (history[i].approved <=> NetworkFaultsUpTo(i) <= maxRetries)

\* C9 witness: with the default maximum, maxRetries network faults in a row
\* were approved and one more was refused.
C9_Witness ==
    /\ maxRetries = DefaultMaxRetries
    /\ Len(history) = maxRetries + 1
    /\ \A i \in 1..Len(history) : history[i].type = "NETWORK"
    /\ history[maxRetries].approved
    /\ ~history[maxRetries + 1].approved

Retryable == {"NETWORK", "INPUT", "RESOURCE"}

C10_OnlyRetryableApproved ==
    \A i \in 1..Len(history) : history[i].approved => history[i].type \in Retryable

C10_RefusalKeepsCounters ==
    (Len(history') = Len(history) + 1 /\ history'[Len(history')].type \notin Retryable)
        => /\ ~history'[Len(history')].approved
           /\ retryCount' = retryCount

\* C10: HandleError refuses retry for configuration faults and for every
\* category outside network / input / resource, whatever the counters hold,
\* and leaves every counter unchanged then; only those three are approved.
C10_NonRetryableRefused == []C10_OnlyRetryableApproved /\ [][C10_RefusalKeepsCounters]_vars

\* C10 witness: a configuration fault was refused while the network counter
\* had room and a retry had been approved before.
C10_Witness ==
    /\ Len(history) >= 2
    /\ history[Len(history)].type = "CONFIGURATION"
    /\ ~history[Len(history)].approved
    /\ history[1].approved
    /\ retryCount["NETWORK"] >= 1
    /\ retryCount["CONFIGURATION"] = 0

\* C11: when a fault's category counter exceeds the configured maximum the
\* retry is refused and, with auto-restart enabled, no restart of the graph
\* is spawned for that fault.
C11_ExhaustedFaultTerminal ==
    (/\ Len(history) > 0
     /\ autoRestart
     /\ GetRetryCount(history[Len(history)].type) > maxRetries)
        => (~history[Len(history)].approved /\ ~restartSpawned)

(***************************************************************************)
(* Properties of attemptRestart (checked under SpecRestart).               *)
(***************************************************************************)
C12_CountersZero == \A e \in ErrorTypes : GetRetryCount(e) = 0

C12_ResetOnCompletion ==
    \A t \in Goroutines :
        (/\ restart[t].pc # "returned"
         /\ restart'[t].pc = "returned"
         /\ restart'[t].startRet = "ok")
            => C12_CountersZero'

RestartOrder == <<"stop", "sleep", "start">>

IsPrefix(p, q) == Len(p) <= Len(q) /\ SubSeq(q, 1, Len(p)) = p

\* C13: attemptRestart calls Stop, sleeps and calls Start, in that order and
\* once each; when that Start succeeds the graph is Running and the
\* handleMessages goroutine it spawned lives and polls: it does not end by
\* itself and the process goes on; after a failed Start the task returns.
C13_RestartStopsSleepsStarts ==
    \A t \in Goroutines :
        /\ IsPrefix(restart[t].trace, RestartOrder)
        /\ restart[t].pc = "returned" => restart[t].trace = RestartOrder
        /\ (restart[t].pc = "start" /\ pc[t] = "start_unlock" /\ ret[t] = "ok") => running
        /\ \A i \in 1..Len(loops) :
              (loops[i].by = t /\ restart[t].pc \in {"start", "returned"})
                  => (loops[i].exit # "panic" /\ Alive)

(***************************************************************************)
(* Properties of handleMessages (checked under SpecEvents and, for what    *)
(* depends on scheduling, under SpecEventsFair).                           *)
(***************************************************************************)
\* C14: every error message a handleMessages loop consumes becomes a
\* PipelineError handed to ErrorHandler.HandleError: the step that consumes
\* it records a fault.
C14_ErrorEventsRouted ==
    [][\A i \in 1..Len(loops) :
          (loops[i].exit # "error" /\ loops'[i].exit = "error")
              => (lastError' # None /\ Len(history') = Len(history) + 1)]_vars

C15_ExitReasons ==
    \A i \in 1..Len(loops) :
        /\ loops[i].exit \in {"eos", "error"} => loops[i].pc = "exited"
        /\ lastPop.loop = i
              => /\ lastPop.msg = "EOS" => loops[i].exit = "eos"
                 /\ lastPop.msg = "ERROR" => loops[i].exit = "error"
                 /\ lastPop.msg \in {"WARNING", "INFO", "STATE_CHANGED"}
                       => loops[i].exit \in {None, "ctx"}

C15_Step ==
    \A i \in 1..Len(loops) :
        /\ loops[i].pc = "exited"
              => (loops'[i] = loops[i] /\ (lastPop' # lastPop => lastPop'.loop # i))
        /\ (loops[i].pc = "pop" /\ loops'[i] # loops[i])
              => /\ lastPop'.loop = i
                 /\ lastPop'.msg \in {"EOS", "ERROR"} => loops'[i].pc = "exited"
                 /\ lastPop'.msg \in {"WARNING", "INFO", "STATE_CHANGED"}
                       => loops'[i].pc = "select"

\* C15: the loop returns when it handles an end-of-stream or an error
\* message and handles nothing afterwards; after a warning, an info or a
\* state-changed message it goes back to polling.
C15_LoopEndsOnEosOrError == []C15_ExitReasons /\ [][C15_Step]_vars

\* C15 witness: one loop ended on end-of-stream while another, which has
\* just handled a warning, is polling again.
C15_Witness ==
    \E i, j \in 1..Len(loops) :
        /\ loops[i].exit = "eos"
        /\ lastPop.loop = j
        /\ lastPop.msg = "WARNING"
        /\ loops[j].pc = "pop"

LoopExited(i) == i <= Len(loops) /\ loops[i].pc = "exited"

\* C16: once Stop() has taken the graph from Running to Stopped, the
\* handleMessages loop of the preceding Start() eventually returns, with no
\* end-of-stream or error message and no cancellation needed.
C16_StopEndsLoop ==
    \A i \in 1..MaxLoops : (msgLoops = i /\ ~running) ~> LoopExited(i)

C17_AtMostOnePoll ==
    \A i \in 1..Len(loops) :
        /\ loops[i].pollsAfterCancel <= 1
        /\ loops[i].exit = "ctx" => ctxCancelled

\* C17: after the context passed to Start() is cancelled, every
\* handleMessages loop polls the bus at most once more (so handles at most
\* one more message) and then returns, whether or not Stop() is called.
C17_CancelStopsLoop ==
    /\ []C17_AtMostOnePoll
    /\ \A i \in 1..MaxLoops : (ctxCancelled /\ i <= Len(loops)) ~> LoopExited(i)

\* C17 witness: a loop returned on cancellation after handling one more
\* message, and Stop() was never called.
C17_Witness ==
    \E i \in 1..Len(loops) :
        /\ loops[i].exit = "ctx"
        /\ loops[i].pollsAfterCancel = 1
        /\ lastPop = [loop |-> i, msg |-> "INFO", unref |-> TRUE]
        /\ nullRequests = 0
        /\ running

(***************************************************************************)
(* Properties of the variant selection (checked under SpecSelect).         *)
(***************************************************************************)
StreamSet == {streams[i] : i \in 1..Len(streams)}

\* C18: on a non-empty playlist SelectHighestQuality returns a variant of
\* the playlist whose width*height is >= that of every variant and whose
\* bandwidth is the highest among those of that area; SelectBestStream
\* selects it for "highest" and for every unknown criteria, and returns
\* nothing for an empty playlist.
C18_HighestResolution ==
    /\ selected.by = "SelectHighestQuality"
          => /\ selected.found
             /\ selected.stream \in StreamSet
             /\ \A v \in StreamSet :
                   /\ Resolution(selected.stream) >= Resolution(v)
                   /\ Resolution(v) = Resolution(selected.stream)
                         => selected.stream.bandwidth >= v.bandwidth
    /\ (selected.by # None /\ Len(streams) > 0 /\ ToLower(criteria) \notin {Lowest, Bandwidth})
          => selected.by = "SelectHighestQuality"
    /\ (selected.by # None /\ Len(streams) = 0) => ~selected.found

\* C18 witness: the variant with the larger area was selected although the
\* other one has the higher bandwidth.
C18_Witness ==
    /\ selected.by = "SelectHighestQuality"
    /\ selected.found
    /\ \E v \in StreamSet :
          /\ Resolution(v) < Resolution(selected.stream)
          /\ v.bandwidth > selected.stream.bandwidth

\* C19: on a non-empty playlist SelectLowestQuality returns a variant of the
\* playlist whose width*height is <= that of every variant and whose
\* bandwidth is the lowest among those of that area.
C19_LowestResolution ==
    /\ selected.by = "SelectLowestQuality"
          => /\ selected.found
             /\ selected.stream \in StreamSet
             /\ \A v \in StreamSet :
                   /\ Resolution(selected.stream) <= Resolution(v)
                   /\ Resolution(v) = Resolution(selected.stream)
                         => selected.stream.bandwidth <= v.bandwidth
    /\ (selected.by # None /\ Len(streams) > 0 /\ ToLower(criteria) = Lowest)
          => selected.by = "SelectLowestQuality"

\* C19 witness: of two variants of the same, minimal area and different
\* sizes the one with the lower bandwidth was selected.
C19_Witness ==
    /\ selected.by = "SelectLowestQuality"
    /\ selected.found
    /\ \E v \in StreamSet :
          /\ Resolution(v) = Resolution(selected.stream)
          /\ v.width # selected.stream.width
          /\ v.bandwidth > selected.stream.bandwidth

\* C20: on a non-empty playlist SelectByBandwidth returns a variant of the
\* playlist whose bandwidth is >= that of every variant, whatever the
\* resolutions.
C20_HighestBandwidth ==
    /\ selected.by = "SelectByBandwidth"
          => /\ selected.found
             /\ selected.stream \in StreamSet
             /\ \A v \in StreamSet : selected.stream.bandwidth >= v.bandwidth
    /\ (selected.by # None /\ Len(streams) > 0 /\ ToLower(criteria) = Bandwidth)
          => selected.by = "SelectByBandwidth"

\* C20 witness: the variant with the highest bandwidth was selected although
\* another one has the larger area.
C20_Witness ==
    /\ selected.by = "SelectByBandwidth"
    /\ selected.found
    /\ \E v \in StreamSet :
          /\ Resolution(v) > Resolution(selected.stream)
          /\ v.bandwidth < selected.stream.bandwidth

(***************************************************************************)
(* GetStreamByResolution.                                                  *)
(***************************************************************************)
\* C21: GetStreamByResolution(w, h) returns nothing when no variant of the
\* list has exactly width w and height h (the empty list included), and
\* otherwise the first variant in list order whose width and height both match.
C21_FirstExactMatch ==
    query.asked =>
        LET m == {i \in 1..Len(streams) :
                     <<streams[i].width, streams[i].height>> = <<query.width, query.height>>}
        IN  IF m = {}
            THEN ~lookup.found
            ELSE /\ lookup.found
                 /\ \E i \in m : /\ lookup.stream = streams[i]
                                 /\ \A j \in 1..(i - 1) : j \notin m

\* Two different variants match and the first of them was returned.
C21_Witness ==
    /\ query.asked
    /\ Len(streams) >= 2
    /\ \A i \in 1..2 : <<streams[i].width, streams[i].height>> = <<query.width, query.height>>
    /\ streams[1] # streams[2]
    /\ lookup.found
    /\ lookup.stream = streams[1]

(***************************************************************************)
(* ParseHLSMasterPlaylist.                                                 *)
(***************************************************************************)
\* The declaration an address line at k belongs to: the last STREAM-INF line
\* before it, 0 if there is none.
PendingAt(k) ==
    IF \E j \in 1..(k - 1) : manifest[j].kind = "STREAM-INF"
    THEN CHOOSE j \in 1..(k - 1) :
            /\ manifest[j].kind = "STREAM-INF"
            /\ \A i \in (j + 1)..(k - 1) : manifest[i].kind # "STREAM-INF"
    ELSE 0

C23_NoVariantsAbortsConstruction ==
    (built.done /\ config.parseMasterPlaylist /\ built.parseErr = "no_streams")
        => ~built.returned /\ built.err = "no_streams"

\* C24: for every source type name other than "urisourcebin" and "playbin3",
\* the empty string included, a graph that New returns has the nodes and the
\* linkers of the souphttpsrc strategy; in every returned graph both
\* demultiplexer nodes exist exactly when their two linkers are registered.
C24_FallbackToSouphttpsrc ==
    (built.done /\ built.returned) =>
        /\ sourceType \notin {"urisourcebin", "playbin3"}
                => /\ {"demux", "tsdemux"} \subseteq built.nodes
                   /\ {"demux", "tsdemux"} \subseteq built.linkers
                   /\ built.linkers \cap {"urisourcebin", "playbin3"} = {}
        /\ ({"demux", "tsdemux"} \subseteq built.nodes
                <=> {"demux", "tsdemux"} \subseteq built.linkers)
        /\ ("demux" \in built.nodes <=> "tsdemux" \in built.nodes)

\* A graph was returned for a source type name that is no selector.
C24_Witness ==
    /\ built.done /\ built.returned
    /\ sourceType \notin SourceTypes
    /\ {"demux", "tsdemux"} \subseteq built.nodes \cap built.linkers

(***************************************************************************)
(* Loops and restarts over the life of the graph.                          *)
(***************************************************************************)
ActiveLoops == {i \in 1..Len(loops) : loops[i].pc # "exited"}

\* C25: at every moment at most one handleMessages loop is active, over any
\* sequence of Start and Stop.
C25_AtMostOneLoop == Cardinality(ActiveLoops) <= 1

\* The top-level caller's Stop has returned (the caller calls nothing else here).
CallerStopped == pc[Caller] = "idle" /\ ret[Caller] # None

\* C26: once a Stop by the top-level caller has returned, the graph stays
\* stopped until the caller calls Start again: no restart task in flight
\* brings it back to running.
C26_StaysStoppedAfterCallerStop ==
    CallerStopped => ~running /\ gstState # "PLAYING"

(***************************************************************************)
(* The source node's pads.                                                 *)
(***************************************************************************)
\* The link the callback of pad k made, if it made one.
LinkOf(k) == IF pads[k].log = "linked" THEN {<<SourcePort(k), pads[k].target>>} ELSE {}

\* C27: when the source node creates one video pad and one audio pad, in either
\* order or with their callbacks interleaved, the links are the same: the video
\* pad goes to the video queue and the audio pad to the audio queue, each
\* whenever the runtime accepts its link, neither blocked nor undone by the
\* other.
C27_VideoAudioOrderIndependent ==
    \A v, a \in SourcePads :
        (/\ v # a
         /\ \A k \in SourcePads \ {v, a} : pads[k].phase = "absent"
         /\ pads[v].phase = "done" /\ HasPrefix(pads[v].mediaType, VideoSlash)
         /\ pads[a].phase = "done" /\ HasPrefix(pads[a].mediaType, AudioSlash))
        => /\ pads[v].target = "videoQueue" /\ pads[a].target = "audioQueue"
           /\ pads[v].log \in {"linked", "link_failed"}
           /\ pads[a].log \in {"linked", "link_failed"}
           /\ links = LinkOf(v) \cup LinkOf(a)

\* Both pads are linked, each to its own intake.
C27_Witness ==
    \E v, a \in SourcePads :
        /\ HasPrefix(pads[v].mediaType, VideoSlash)
        /\ HasPrefix(pads[a].mediaType, AudioSlash)
        /\ links = {<<SourcePort(v), "videoQueue">>, <<SourcePort(a), "audioQueue">>}

\* C30: a pad left unlinked because it had no descriptor when it was created is
\* linked to the matching intake once it negotiates a video or audio media
\* type, provided the intake is still unlinked.
C30_RelinkedOnNegotiation ==
    \A k \in SourcePads :
        (/\ pads[k].log = "no_caps"
         /\ pads[k].negotiated # <<>>
         /\ ~IsLinked(SourceTarget(pads[k].negotiated)))
        ~> (\/ <<SourcePort(k), SourceTarget(pads[k].negotiated)>> \in links
            \/ IsLinked(SourceTarget(pads[k].negotiated)))

(***************************************************************************)
(* The messages the loop pops.                                             *)
(***************************************************************************)
\* C28: every message a loop pops is released once it is handled, the
\* end-of-stream or error message that ends the loop included.
C28_EveryMessageReleased == lastPop.msg # None => lastPop.unref

\* A loop has ended on an end-of-stream or error message and the graph is
\* flagged running.
EndedRunning ==
    running /\ \E i \in 1..Len(loops) : loops[i].exit \in {"eos", "error"}

C29_Step ==
    /\ (\E i \in 1..Len(loops) :
            /\ loops[i].pc = "pop"
            /\ loops'[i].pc = "exited")
          => Graph' = Graph
    /\ (EndedRunning /\ pc[Caller] = "start_check" /\ pc'[Caller] # "start_check")
          => /\ pc'[Caller] = "start_unlock"
             /\ ret'[Caller] = "already_running"
             /\ Graph' = Graph
    /\ (EndedRunning /\ pc[Caller] = "isrunning_read" /\ pc'[Caller] = "idle")
          => ret'[Caller] = "true"

\* C29: an end-of-stream or error message ends the loop and nothing else: the
\* graph is left as it was, running included, IsRunning keeps returning true
\* and a following Start is refused as already running.
C29_EndOfStreamEndsOnlyLoop == [][C29_Step]_vars

\* A loop ended on end-of-stream, and a Start called afterwards found the
\* graph running and was refused.
C29_Witness ==
    /\ EndedRunning
    /\ \A i \in 1..Len(loops) : loops[i].pc = "exited"
    /\ pc[Caller] = "start_unlock"
    /\ ret[Caller] = "already_running"

(***************************************************************************)
(* Descriptors and dispatch in all linkers.                                *)
(***************************************************************************)
\* C31: in every registered linker, the two decoder linkers included, a new
\* pad without a negotiated descriptor is queried for one.
C31_EveryLinkerQueries ==
    (probe.cb # None /\ probe.current.isNil) => probe.queried

\* C32: in the tsdemux, playbin3 and urisourcebin linkers a pad whose media
\* type is video/mpegts or video/mp2t is never linked to the video queue.
C32_TransportStreamNotToVideo ==
    (/\ lastEvt.cb \in {"tsdemux", "playbin3", "urisourcebin"}
     /\ lastEvt.mediaType \in TransportStreamFamily
     /\ lastEvt.log = "linked")
        => lastEvt.target # "videoQueue"

(***************************************************************************)
(* The variant list over selections, lookups and parsing.                  *)
(***************************************************************************)
\* C33: the selectors and GetStreamByResolution leave the variant list as it
\* is: after any selections it is still in manifest order, and a lookup
\* returns the first match in manifest order.
C33_ListKeptInManifestOrder ==
    /\ \A i \in 1..Len(streams) : streams[i].url = i
    /\ (query.asked /\ lookup.found) =>
            \A j \in 1..Len(streams) :
                (streams[j].width = query.width /\ streams[j].height = query.height)
                    => lookup.stream.url <= streams[j].url

\* C34: while a manifest is parsed each STREAM-INF line yields at most one
\* variant, whose address is the next line that is no comment; an address line
\* that does not follow a fresh declaration emits nothing, and the variants are
\* emitted in manifest order.
C34_OneVariantPerDeclaration ==
    (parsed.done /\ parsed.fetch = "ok") =>
        LET e == parsed.emitted
        IN  /\ \A i \in 1..Len(e) :
                  /\ PendingAt(e[i].url) # 0
                  /\ \A k \in (PendingAt(e[i].url) + 1)..(e[i].url - 1) : manifest[k].kind = "#"
            /\ \A i, j \in 1..Len(e) :
                  /\ i < j => e[i].url < e[j].url
                  /\ i # j => PendingAt(e[i].url) # PendingAt(e[j].url)

\* C35: a health probe reports unhealthy exactly when the graph was not
\* Running or the time since the last activity ping exceeded the timeout
\* threshold; in every other case it reports healthy.
C35_UnhealthyExactlyWhenStoppedOrStale ==
    health.probed =>
        (~health.result <=> (~health.ran \/ health.since > TimeoutThreshold))

\* A probe of a Running graph whose last ping is exactly the threshold old
\* reports healthy, and one of a Running graph with an older ping does not.
C35_Witness ==
    /\ health.probed /\ health.ran
    /\ health.since = TimeoutThreshold
    /\ health.result

\* C36: if the graph is Running and no activity ping ever occurs, the probe
\* eventually reports unhealthy and the health observer is notified of it.
C36_StalenessEventuallyFlagged ==
    [](running /\ lastActivity = 0) => <>(health.notified /\ ~health.result)

\* A probe of a Running, never pinged graph found the activity stale and
\* notified the observer.
C36_Witness ==
    /\ health.probed /\ health.ran /\ lastActivity = 0
    /\ health.since > TimeoutThreshold
    /\ health.notified /\ ~health.result

\* C37: the health observer is invoked only when a probe's result differs
\* from the recorded status, and the health path spawns a restart only on
\* a pass that takes the status from healthy to unhealthy, so that no
\* restart is spawned while the status stays unhealthy.
C37_Step ==
    (health' # health \/ isHealthy' # isHealthy) =>
        /\ health'.notified => health'.result # isHealthy
        /\ health'.restarted => (isHealthy /\ ~isHealthy')
        /\ (~isHealthy /\ ~isHealthy') => ~health'.restarted

C37_NotifiedOnChangeOnly == [][C37_Step]_vars

\* An unhealthy status was probed again, found unhealthy again, and the
\* observer was left alone.
C37_Witness ==
    /\ health.probed /\ callbackSet /\ autoRestart
    /\ ~health.previous /\ ~health.result
    /\ ~health.notified /\ ~health.restarted

\* C38: for every source type and overlay setting, construction and the
\* callbacks it registers use an optional node slot only if it is filled;
\* the two demultiplexer slots are used only with the souphttpsrc approach
\* and the overlay slot only if the overlay is enabled with type text or
\* image.
C38_NoAbsentNodeUsed ==
    built.done =>
        /\ built.uses \subseteq built.filled
        /\ (built.uses \cap {"demux", "tsdemux"} # {}) =>
               sourceType \notin {"playbin3", "urisourcebin"}
        /\ "overlay" \in built.uses =>
               (config.overlayEnabled /\ config.overlayType \in {"text", "image"})

\* A playbin3 graph whose overlay is enabled with a type that is neither text
\* nor image was built: no optional slot is filled and none is used.
C38_Witness ==
    /\ built.done /\ built.returned
    /\ sourceType = "playbin3"
    /\ config.overlayEnabled /\ config.overlayType = ""
    /\ built.filled = {"source"} /\ built.uses = {}

\* C39: when the playbin3 pipeline resolves the master playlist and selects a
\* variant, the source node is given that variant's address, and the variant's
\* width and height become the preferred resolution only if none was
\* configured; the output size is the configured output resolution if there
\* is one, else the preferred one if there is one, else 1920x1080.
C39_Step ==
    (built' # built /\ built'.by = "createPlaybin3Source" /\ built'.returned) =>
        /\ (config.parseMasterPlaylist /\ built'.parseErr = None) =>
              LET selection == IF config.streamSelection = <<>> THEN Highest
                               ELSE config.streamSelection
              IN  \E sorted \in SortSlice(ScanLines(manifest, 1, NoStream, <<>>),
                                          SelectorOf(selection)) :
                      /\ built'.uri = sorted[1].url
                      /\ config'.preferred =
                             IF config.preferred = <<0, 0>>
                             THEN <<sorted[1].width, sorted[1].height>>
                             ELSE config.preferred
        /\ config'.output = config.output
        /\ built'.output =
               CASE config.output # <<0, 0>> -> config.output
                 [] config'.preferred # <<0, 0>> -> config'.preferred
                 [] OTHER -> <<1920, 1080>>

C39_SelectedVariantFeedsSource == [][C39_Step]_vars

\* A variant with a resolution was selected while a preferred and an output
\* resolution were configured: its address went to the source node, the
\* preferred resolution was kept and the output resolution was used.
C39_Witness ==
    /\ built.done /\ built.returned /\ built.by = "createPlaybin3Source"
    /\ config.parseMasterPlaylist /\ built.parseErr = None
    /\ built.uri > 0
    /\ config.preferred = <<2, 1>> /\ config.output = <<3, 3>>
    /\ built.output = <<3, 3>>

====
